---- MODULE Spec2Model ----
(***************************************************************************)
(* Model of the PhoneUnlock Pro front end: the detection flows of          *)
(* PhoneDetection and UniversalPhoneDetection, the recent-devices list     *)
(* kept in localStorage, the notification area, the health monitoring,     *)
(* the self-healing, the AI agents and the loading overlay of              *)
(* PhoneUnlockApp, the download queue, the firmware search and the brand   *)
(* catalog of FirmwareManager.                                             *)
(*                                                                         *)
(* JavaScript runs every handler to its next await in one piece, so each   *)
(* action below is one such piece: a click handler up to its fetch, or the *)
(* continuation that runs when a fetch or a timer resolves.                *)
(*                                                                         *)
(* The page is the environment: it supplies the elements the scripts use   *)
(* without a null check (detection-status, detected-device, ...), it       *)
(* publishes the application object as window.app, and it has no           *)
(* #detection-log element.                                                 *)
(***************************************************************************)
EXTENDS Integers, Sequences, FiniteSets, TLC

\* ------------------------------------------------------------------ bounds
MaxLoad == 2
MaxNotices == 1
MaxClock == 2
MaxPushes == 7
MaxUsbFlows == 1
MaxQueue == 2
MaxHealthChecks == 2
MaxSelfHeals == 2
MaxShown == 3
MaxTime == 7
MaxStored == 7
MaxAppCalls == 1
MaxMonitorTime == 62

\* ---------------------------------------------------------- program values
RecentCap == 5
NoticeDelay == 5
FallbackDelay == 2
PollInterval == 30
ManualConfidence == 500
DefaultCombinedConfidence == 500
NoValue == -1

Null == [kind |-> "null"]
Undefined == [kind |-> "undefined"]

\* Model names are sequences of characters, abbreviated from the catalog:
\* "H30" for "Infinity H30", "H40 (E)" for "Infinity H40 Lite (HLTE230E)".
EmptyString == << >>
NameH30 == <<"H", "3", "0">>
NameH40 == <<"H", "4", "0", " ", "(", "E", ")">>
NameS21 == <<"S", "2", "1">>
NameS23 == <<"S", "2", "3">>
NameM13 == <<"M", "1", "3">>

\* A phone record. detection_confidence is in thousandths (910 is 0.91);
\* NoValue stands for a field the record does not have.
Phone(b, m, mn, lt, c, dm) ==
    [kind |-> "device", brand |-> b, model |-> m, model_number |-> mn,
     lock_type |-> lt, detection_confidence |-> c, detection_method |-> dm]

\* phone records the detect-phone endpoint may answer with
GatewayPhones ==
    { Phone("Samsung", NameS21, <<"G">>, "absent", 910, "absent") }

\* identification records the detect-any-phone / force-detect-device
\* endpoints may answer with
Identifications ==
    { Phone("Xiaomi", NameM13, <<"X">>, "absent", 750, "adb") }

GatewayErrors == {"no device"}
TransportErrors == {"Failed to fetch"}
TypeErrorMessage == "Cannot read properties of undefined"

ManualBrands == {"", "hisense"}
ManualModels == {EmptyString, NameH30, NameH40}
ManualLockTypes == {"auto"}

\* ------------------------------------------------------------------- state
VARIABLES
    currentDevice,      \* PhoneDetection.currentDevice
    isDetecting,        \* PhoneDetection.isDetecting
    appCurrentDevice,   \* PhoneUnlockApp.currentDevice
    currentDetection,   \* UniversalPhoneDetection.currentDetection
    detectionStatus,    \* #detection-status: indicator class and message
    detectedModel,      \* #detected-model text: <<brand, model>>
    confidenceBadge,    \* #confidence-badge: text (percent) and background
    usbConnected,       \* the 'connected' class of #phone-silhouette
    hisenseSection,     \* #hisense is displayed
    localStorage,       \* localStorage item 'recentDevices' (Null: not set)
    recentDevicesUI,    \* devices rendered in #recent-devices-list
    notifications,      \* children of .notification-container, oldest first
    modals,             \* .modal-overlay elements in document order
    fallbackTimers,     \* armed 2000 ms timers of handleDetectionError
    helpCalls,          \* outstanding fetches of /api/detection-help
    pendingCalls,       \* outstanding detection fetches, in issue order
    usbFlows,           \* running fixUSBRecognition loops
    clock,              \* new Date(): advances with every push
    windowApp,          \* window.app is the application object
    ignoredCall,        \* startDetection returned at its guard during this attempt
    snap,               \* the devices and the list when startDetection began
    downloadQueue,      \* FirmwareManager.downloadQueue
    intervals,          \* live setInterval timers of simulateDownloadProgress
    transfers,          \* outstanding fetch(url) of downloadFirmware
    badgeInput,         \* a confidence handed to a showDetectedDevice
    badgeOutput,        \* the background that showDetectedDevice chose
    systemHealth,       \* PhoneUnlockApp.systemHealth
    healthChecks,       \* outstanding fetches of /api/health-status
    selfHeals,          \* outstanding fetches of /api/self-heal
    loading,            \* #loading-overlay is displayed
    time,               \* seconds since the page was loaded
    noticeDue,          \* when the 5000 ms timer of each notice shown fires
    brandModels,        \* FirmwareManager.brandModels
    modelSelect,        \* #model-select: options, disabled, value
    manualModelSelect,  \* #manual-model of the dialog: options, disabled, value
    aiAgents,           \* PhoneUnlockApp.aiAgents
    agentsUI,           \* #ai-agents-grid and #ai-active-agents as last drawn
    appCalls,           \* flows of the application waiting for a fetch or a timer
    fallbackDue,        \* when each armed timer of handleDetectionError fires
    monitor             \* startHealthMonitoring: its phase and the next poll

detectVars == <<currentDevice, isDetecting, appCurrentDevice, currentDetection,
                detectionStatus, detectedModel, confidenceBadge, usbConnected,
                hisenseSection, localStorage, recentDevicesUI, modals,
                fallbackTimers, helpCalls, pendingCalls, usbFlows, clock,
                snap, ignoredCall>>
downloadVars == <<downloadQueue, intervals, transfers>>
badgeVars == <<badgeInput, badgeOutput>>
appVars == <<systemHealth, healthChecks, selfHeals, loading>>
noticeVars == <<time, noticeDue>>
catalogVars == <<brandModels, modelSelect, manualModelSelect>>
agentVars == <<aiAgents, agentsUI, appCalls>>
vars == <<detectVars, notifications, windowApp, downloadVars, badgeVars, appVars, noticeVars,
          catalogVars, agentVars, fallbackDue, monitor>>

\* ----------------------------------------------------------------- helpers
RemoveAt(s, i) == SubSeq(s, 1, i - 1) \o SubSeq(s, i + 1, Len(s))

\* JavaScript truthiness of a value held in a device slot
Truthy(v) == v.kind = "device"

\* String.prototype.toLowerCase on the brand names in use
ToLowerCase(b) ==
    CASE b = "Samsung" -> "samsung"
      [] b = "Xiaomi" -> "xiaomi"
      [] OTHER -> b

\* Math.round(c * 100) for c given in thousandths: round half up
MathRoundPercent(c) == (c + 5) \div 10

\* JSON.stringify / JSON.parse of the recent-devices array: the text is the
\* array itself, tagged; a key missing in storage reads as null.
JSONstringify(list) == [kind |-> "json", text |-> list]
JSONparse(item) == item.text
GetItemOrEmpty(item) == IF item = Null THEN JSONstringify(<< >>) ELSE item

\* ------------------------------------------------ PhoneDetection: pure parts
\* Array.prototype.findIndex, 0 for JavaScript's -1
FindIndex(list, phoneInfo) ==
    LET hits == { i \in 1..Len(list) :
                    list[i].model = phoneInfo.model /\ list[i].brand = phoneInfo.brand }
    IN IF hits = {} THEN 0 ELSE CHOOSE i \in hits : \A j \in hits : i <= j

RecentEntry(phoneInfo, t) ==
    [brand |-> phoneInfo.brand, model |-> phoneInfo.model,
     model_number |-> phoneInfo.model_number, lock_type |-> phoneInfo.lock_type,
     detection_confidence |-> phoneInfo.detection_confidence,
     detection_method |-> phoneInfo.detection_method, detected_at |-> t]

\* addToRecentDevices without the removal of the entry that already exists
AddToRecentDevicesNoSplice(stored, phoneInfo, t) ==
    LET recentDevices == JSONparse(GetItemOrEmpty(stored))
        unshifted == <<RecentEntry(phoneInfo, t)>> \o recentDevices
    IN IF Len(unshifted) > RecentCap
       THEN SubSeq(unshifted, 1, Len(unshifted) - 1)
       ELSE unshifted

\* the array addToRecentDevices stores and displays
AddToRecentDevices(stored, phoneInfo, t) ==
    LET recentDevices == JSONparse(GetItemOrEmpty(stored))
        existingIndex == FindIndex(recentDevices, phoneInfo)
        spliced == IF existingIndex # 0 THEN RemoveAt(recentDevices, existingIndex)
                   ELSE recentDevices
        unshifted == <<RecentEntry(phoneInfo, t)>> \o spliced
    IN IF Len(unshifted) > RecentCap
       THEN SubSeq(unshifted, 1, Len(unshifted) - 1)
       ELSE unshifted

\* model.match(/\(([^)]+)\)/): the leftmost "(" that is followed by at least
\* one character other than ")" and then a ")"; the group is what lies between
FirstClose(model, i) ==
    LET closes == { j \in (i + 1)..Len(model) : model[j] = ")" }
    IN IF closes = {} THEN 0 ELSE CHOOSE j \in closes : \A k \in closes : j <= k

MatchStart(model) ==
    LET starts == { i \in 1..Len(model) :
                      model[i] = "(" /\ FirstClose(model, i) >= i + 2 }
    IN IF starts = {} THEN 0 ELSE CHOOSE i \in starts : \A k \in starts : i <= k

\* extractModelNumber without the fallback to the model name
extractModelNumberNoFallback(model) ==
    LET i == MatchStart(model)
    IN IF i = 0 THEN EmptyString ELSE SubSeq(model, i + 1, FirstClose(model, i) - 1)

\* model.match(/\(([^)]+)\)/): the first group, or the model itself
extractModelNumber(model) ==
    LET i == MatchStart(model)
    IN IF i = 0 THEN model ELSE SubSeq(model, i + 1, FirstClose(model, i) - 1)

\* the background PhoneDetection.showDetectedDevice gives the badge
PhoneDetectionBadgeColor(confidence) ==
    IF confidence >= 90 THEN "green"
    ELSE IF confidence >= 70 THEN "amber"
    ELSE "red"

\* the background UniversalPhoneDetection.showDetectedDevice gives the badge
UniversalBadgeColor(confidence) ==
    IF confidence >= 80 THEN "green"
    ELSE IF confidence >= 60 THEN "amber"
    ELSE "red"

\* PhoneDetection.showDetectedDevice: the badge is left alone when the
\* confidence is missing or 0
PhoneDetectionBadge(badge, phoneInfo) ==
    IF phoneInfo.detection_confidence > 0
    THEN [text |-> MathRoundPercent(phoneInfo.detection_confidence),
          color |-> PhoneDetectionBadgeColor(MathRoundPercent(phoneInfo.detection_confidence))]
    ELSE badge

UniversalBadge(identification) ==
    [text |-> MathRoundPercent(identification.detection_confidence),
     color |-> UniversalBadgeColor(MathRoundPercent(identification.detection_confidence))]

\* ------------------------------------------------------------ notifications
Notice(message, type, title) == [type |-> type, message |-> message, title |-> title]

\* showNotification that shows a text only once
AppShowNotificationOnce(list, message, type, title) ==
    IF \E k \in 1..Len(list) : list[k].message = message
    THEN list
    ELSE Append(list, Notice(message, type, title))

\* PhoneUnlockApp.showNotification
AppShowNotification(list, message, type, title) ==
    Append(list, Notice(message, type, title))

\* PhoneDetection.showNotification / FirmwareManager.showNotification:
\* window.app.showNotification, or alert() which leaves no notice
ShowNotification(list, message, type) ==
    IF windowApp THEN AppShowNotification(list, message, type, "") ELSE list

\* --------------------------------------------------------------- bounding
\* flows, timers and dialogs that are open or may still open a dialog
Load == fallbackTimers + helpCalls + Len(modals) + Len(pendingCalls) + Len(usbFlows)
Room == Load < MaxLoad
NoticeRoom == Len(notifications) < MaxNotices

Call(endpoint, flow) == [endpoint |-> endpoint, flow |-> flow]

\* -------------------------------------------------- PhoneDetection: handlers
\* updateDetectionStatus(status, message)
Status(status, message) == [status |-> status, message |-> message]

\* handleDetectionSuccess(phoneInfo) for a well-formed record
HandleDetectionSuccess(phoneInfo) ==
    /\ currentDevice' = phoneInfo
    /\ detectionStatus' = Status("success", <<"Device detected successfully!">>)
    /\ detectedModel' = <<phoneInfo.brand, phoneInfo.model>>
    /\ confidenceBadge' = PhoneDetectionBadge(confidenceBadge, phoneInfo)
    /\ localStorage' = JSONstringify(AddToRecentDevices(localStorage, phoneInfo, clock + 1))
    /\ recentDevicesUI' = AddToRecentDevices(localStorage, phoneInfo, clock + 1)
    /\ clock' = clock + 1
    /\ hisenseSection' = (hisenseSection \/ ToLowerCase(phoneInfo.brand) = "hisense")
    /\ appCurrentDevice' = IF windowApp THEN phoneInfo ELSE appCurrentDevice

\* handleDetectionError that also forgets the device of the session
HandleDetectionErrorForgetsDevice(error) ==
    /\ detectionStatus' = Status("error", <<"Detection failed: ", error>>)
    /\ usbConnected' = FALSE
    /\ fallbackTimers' = fallbackTimers + 1
    /\ fallbackDue' = Append(fallbackDue, time + FallbackDelay)
    /\ currentDevice' = Null
    /\ appCurrentDevice' = Null
    /\ UNCHANGED <<currentDetection, detectedModel, confidenceBadge, hisenseSection,
                   localStorage, recentDevicesUI, clock, catalogVars, agentVars, monitor>>

\* handleDetectionError that arms no timer for the fallback
HandleDetectionErrorNoFallback(error) ==
    /\ detectionStatus' = Status("error", <<"Detection failed: ", error>>)
    /\ usbConnected' = FALSE
    /\ UNCHANGED <<fallbackTimers, fallbackDue, currentDevice, appCurrentDevice,
                   currentDetection, detectedModel, confidenceBadge, hisenseSection,
                   localStorage, recentDevicesUI, clock, catalogVars, agentVars, monitor>>

\* handleDetectionError(error): the status, the USB animation and the timer
\* of the fallback; the devices and the list are not touched
HandleDetectionError(error) ==
    /\ detectionStatus' = Status("error", <<"Detection failed: ", error>>)
    /\ usbConnected' = FALSE
    /\ fallbackTimers' = fallbackTimers + 1
    /\ fallbackDue' = Append(fallbackDue, time + FallbackDelay)
    /\ UNCHANGED <<currentDevice, appCurrentDevice, currentDetection, detectedModel,
                   confidenceBadge, hisenseSection, localStorage, recentDevicesUI, clock, catalogVars, agentVars, monitor>>

\* startDetection without its guard on isDetecting
StartDetectionUnguarded ==
    /\ Room
    /\ isDetecting' = TRUE
    /\ detectionStatus' = Status("detecting", <<"Detecting connected device...">>)
    /\ usbConnected' = TRUE
    /\ pendingCalls' = Append(pendingCalls, Call("detect-phone", "startDetection"))
    /\ snap' = [device |-> currentDevice, app |-> appCurrentDevice,
                stored |-> localStorage]
    /\ ignoredCall' = FALSE
    /\ UNCHANGED <<currentDevice, appCurrentDevice, currentDetection, detectedModel,
                   confidenceBadge, hisenseSection, localStorage, recentDevicesUI,
                   modals, fallbackTimers, helpCalls, usbFlows, clock,
                   notifications, windowApp, downloadVars, badgeVars, appVars, noticeVars, catalogVars, agentVars, fallbackDue, monitor>>

\* startDetection, up to the fetch of /api/detect-phone
StartDetection ==
    IF isDetecting
    THEN /\ ignoredCall' = TRUE
         /\ UNCHANGED <<currentDevice, isDetecting, appCurrentDevice, currentDetection,
                        detectionStatus, detectedModel, confidenceBadge, usbConnected,
                        hisenseSection, localStorage, recentDevicesUI, modals,
                        fallbackTimers, helpCalls, pendingCalls, usbFlows, clock, snap,
                        notifications, windowApp, downloadVars, badgeVars, appVars, noticeVars, catalogVars, agentVars, fallbackDue, monitor>>
    ELSE /\ Room
         /\ isDetecting' = TRUE
         /\ detectionStatus' = Status("detecting", <<"Detecting connected device...">>)
         /\ usbConnected' = TRUE
         /\ pendingCalls' = Append(pendingCalls, Call("detect-phone", "startDetection"))
         /\ snap' = [device |-> currentDevice, app |-> appCurrentDevice,
                     stored |-> localStorage]
         /\ ignoredCall' = FALSE
         /\ UNCHANGED <<currentDevice, appCurrentDevice, currentDetection, detectedModel,
                        confidenceBadge, hisenseSection, localStorage, recentDevicesUI,
                        modals, fallbackTimers, helpCalls, usbFlows, clock,
                        notifications, windowApp, downloadVars, badgeVars, appVars, noticeVars, catalogVars, agentVars, fallbackDue, monitor>>

\* startDetection from the answer of /api/detect-phone on: success with a
\* phone record
DetectPhoneSucceeds(i, phone) ==
    /\ pendingCalls[i].endpoint = "detect-phone"
    /\ clock < MaxClock
    /\ HandleDetectionSuccess(phone)
    /\ isDetecting' = FALSE
    /\ pendingCalls' = RemoveAt(pendingCalls, i)
    /\ snap' = Null
    /\ ignoredCall' = FALSE
    /\ UNCHANGED <<currentDetection, usbConnected, modals, fallbackTimers, helpCalls,
                   usbFlows, notifications, windowApp, downloadVars, badgeVars, appVars, noticeVars, catalogVars, agentVars, fallbackDue, monitor>>

\* success: true without a phone record: handleDetectionSuccess(undefined)
\* assigns currentDevice, sets the status and throws in showDetectedDevice;
\* the catch of startDetection then runs handleDetectionError
DetectPhoneMalformed(i) ==
    /\ pendingCalls[i].endpoint = "detect-phone"
    /\ currentDevice' = Undefined
    /\ detectionStatus' = Status("error", <<"Detection failed: ", TypeErrorMessage>>)
    /\ usbConnected' = FALSE
    /\ fallbackTimers' = fallbackTimers + 1
    /\ fallbackDue' = Append(fallbackDue, time + FallbackDelay)
    /\ isDetecting' = FALSE
    /\ pendingCalls' = RemoveAt(pendingCalls, i)
    /\ snap' = Null
    /\ ignoredCall' = FALSE
    /\ UNCHANGED <<appCurrentDevice, currentDetection, detectedModel, confidenceBadge,
                   hisenseSection, localStorage, recentDevicesUI, modals, helpCalls,
                   usbFlows, clock, notifications, windowApp, downloadVars, badgeVars, appVars, noticeVars, catalogVars, agentVars, monitor>>

\* the failure branch of startDetection without the finally block
DetectPhoneFailsStaysDetecting(i, error) ==
    /\ pendingCalls[i].endpoint = "detect-phone"
    /\ HandleDetectionError(error)
    /\ pendingCalls' = RemoveAt(pendingCalls, i)
    /\ snap' = Null
    /\ ignoredCall' = FALSE
    /\ UNCHANGED <<isDetecting, modals, helpCalls, usbFlows, notifications, windowApp,
                   downloadVars, badgeVars, appVars, noticeVars, catalogVars, agentVars,
                   monitor>>

\* success: false with an error message, or fetch / response.json() rejecting
DetectPhoneFails(i, error) ==
    /\ pendingCalls[i].endpoint = "detect-phone"
    /\ HandleDetectionError(error)
    /\ isDetecting' = FALSE
    /\ pendingCalls' = RemoveAt(pendingCalls, i)
    /\ snap' = Null
    /\ ignoredCall' = FALSE
    /\ UNCHANGED <<modals, helpCalls, usbFlows, notifications, windowApp, downloadVars,
                   badgeVars, appVars, noticeVars, catalogVars, agentVars, monitor>>

DetectPhoneResolves ==
    \E i \in 1..Len(pendingCalls) :
        \/ \E phone \in GatewayPhones : DetectPhoneSucceeds(i, phone)
        \/ DetectPhoneMalformed(i)
        \/ \E e \in GatewayErrors : DetectPhoneFails(i, e)
        \/ \E e \in TransportErrors : DetectPhoneFails(i, e)

\* the 2000 ms timer of handleDetectionError fires: showManualSelection
FallbackTimerFires ==
    /\ fallbackTimers > 0
    /\ fallbackTimers' = fallbackTimers - 1
    /\ fallbackDue' = Tail(fallbackDue)
    /\ modals' = Append(modals, "manual")
    /\ UNCHANGED <<currentDevice, isDetecting, appCurrentDevice, currentDetection,
                   detectionStatus, detectedModel, confidenceBadge, usbConnected,
                   hisenseSection, localStorage, recentDevicesUI, helpCalls, pendingCalls,
                   usbFlows, clock, snap, ignoredCall, notifications, windowApp, downloadVars, badgeVars, appVars, noticeVars, catalogVars, agentVars, monitor>>

\* the manual-select button: showManualSelection
ShowManualSelection ==
    /\ Room
    /\ modals' = Append(modals, "manual")
    /\ UNCHANGED <<currentDevice, isDetecting, appCurrentDevice, currentDetection,
                   detectionStatus, detectedModel, confidenceBadge, usbConnected,
                   hisenseSection, localStorage, recentDevicesUI, fallbackTimers, helpCalls,
                   pendingCalls, usbFlows, clock, snap, ignoredCall, notifications, windowApp,
                   downloadVars, badgeVars, appVars, noticeVars, catalogVars, agentVars, fallbackDue, monitor>>

\* the close and cancel buttons of a dialog
CloseModal ==
    \E i \in 1..Len(modals) :
        /\ modals' = RemoveAt(modals, i)
        /\ UNCHANGED <<currentDevice, isDetecting, appCurrentDevice, currentDetection,
                       detectionStatus, detectedModel, confidenceBadge, usbConnected,
                       hisenseSection, localStorage, recentDevicesUI, fallbackTimers,
                       helpCalls, pendingCalls, usbFlows, clock, snap, ignoredCall, notifications,
                       windowApp, downloadVars, badgeVars, appVars, noticeVars, catalogVars, agentVars, fallbackDue, monitor>>

\* confirmManualSelection without the check of brand and model
ConfirmManualSelectionUnvalidated(brand, model, lockType) ==
    /\ Len(modals) > 0
    /\ modals[1] = "manual"
    /\ clock < MaxClock
    /\ HandleDetectionSuccess(Phone(brand, model, extractModelNumber(model),
                                    lockType, ManualConfidence, "manual"))
    /\ modals' = Tail(modals)
    /\ UNCHANGED <<isDetecting, currentDetection, usbConnected, fallbackTimers,
                   helpCalls, pendingCalls, usbFlows, snap, ignoredCall, notifications,
                   windowApp, downloadVars, badgeVars, appVars, noticeVars, catalogVars, agentVars, fallbackDue, monitor>>

\* confirmManualSelection with the values of the selects of the first
\* .modal-overlay of the document (a manual-selection dialog)
ConfirmManualSelection(brand, model, lockType) ==
    /\ Len(modals) > 0
    /\ modals[1] = "manual"
    /\ IF brand = "" \/ model = EmptyString
       THEN /\ NoticeRoom
            /\ notifications' = ShowNotification(notifications,
                                    <<"Please select both brand and model">>, "error")
            /\ UNCHANGED <<detectVars, windowApp, downloadVars, badgeVars, appVars, noticeVars, catalogVars, agentVars, fallbackDue, monitor>>
       ELSE /\ clock < MaxClock
            /\ HandleDetectionSuccess(Phone(brand, model, extractModelNumber(model),
                                            lockType, ManualConfidence, "manual"))
            /\ modals' = Tail(modals)
            /\ UNCHANGED <<isDetecting, currentDetection, usbConnected, fallbackTimers,
                           helpCalls, pendingCalls, usbFlows, snap, ignoredCall, notifications,
                           windowApp, downloadVars, badgeVars, appVars, noticeVars, catalogVars, agentVars, fallbackDue, monitor>>

ConfirmManual ==
    \E brand \in ManualBrands, model \in ManualModels, lockType \in ManualLockTypes :
        ConfirmManualSelection(brand, model, lockType)

\* -------------------------------------------------------- notification area
\* the 5000 ms timer of the oldest notice still shown fires
NotificationExpires ==
    /\ Len(notifications) > 0
    /\ notifications' = Tail(notifications)
    /\ UNCHANGED <<detectVars, windowApp, downloadVars, badgeVars, appVars, noticeVars, catalogVars, agentVars, fallbackDue, monitor>>

\* the close button of a notice
NotificationClosed ==
    \E i \in 1..Len(notifications) :
        /\ notifications' = RemoveAt(notifications, i)
        /\ UNCHANGED <<detectVars, windowApp, downloadVars, badgeVars, appVars, noticeVars, catalogVars, agentVars, fallbackDue, monitor>>

\* ----------------------------------------- UniversalPhoneDetection: handlers
UsbMethods == <<"adb", "fastboot", "usb_raw", "emergency_modes">>

\* the answer of detect-any-phone / force-detect-device with success: true
UniversalResults ==
    { [identification |-> id, combined_confidence |-> c] :
        id \in Identifications, c \in {NoValue} }

\* handleDetectionSuccess(result) of UniversalPhoneDetection
UniversalHandleDetectionSuccess(result) ==
    /\ currentDetection' =
          [kind |-> "detection", identification |-> result.identification,
           confidence |-> IF result.combined_confidence > 0
                          THEN result.combined_confidence
                          ELSE DefaultCombinedConfidence]
    /\ detectedModel' = <<result.identification.brand, result.identification.model>>
    /\ confidenceBadge' = UniversalBadge(result.identification)
    /\ detectionStatus' = Status("success", <<"Device detected successfully!">>)
    /\ appCurrentDevice' = IF windowApp THEN result.identification ELSE appCurrentDevice

\* handleDetectionError(result) of UniversalPhoneDetection; it ends by
\* calling showUniversalDetectionHelp, which fetches /api/detection-help
UniversalHandleDetectionError(error) ==
    /\ detectionStatus' = Status("error", <<"Detection failed: ", error>>)
    /\ helpCalls' = helpCalls + 1
    /\ UNCHANGED <<appCurrentDevice, currentDetection, detectedModel, confidenceBadge, catalogVars, agentVars, fallbackDue, monitor>>

UniversalStart(endpoint, flow, message) ==
    /\ Room
    /\ detectionStatus' = Status("detecting", message)
    /\ pendingCalls' = Append(pendingCalls, Call(endpoint, flow))
    /\ UNCHANGED <<currentDevice, isDetecting, appCurrentDevice, currentDetection,
                   detectedModel, confidenceBadge, usbConnected, hisenseSection,
                   localStorage, recentDevicesUI, modals, fallbackTimers, helpCalls,
                   usbFlows, clock, snap, ignoredCall, notifications, windowApp, downloadVars,
                   badgeVars, appVars, noticeVars, catalogVars, agentVars, fallbackDue, monitor>>

\* startUniversalDetection, up to the fetch of /api/detect-any-phone
StartUniversalDetection ==
    UniversalStart("detect-any-phone", "startUniversalDetection",
                   <<"Starting universal phone detection...">>)

\* PhoneUnlockApp.startDetection awaits startUniversalDetection
AppStartDetection ==
    UniversalStart("detect-any-phone", "app.startDetection",
                   <<"Starting universal phone detection...">>)

\* forceDetectDevice(vendorId, productId), up to the fetch
ForceDetectDevice ==
    \E vendorId \in {"18d1"}, productId \in {"4ee7"} :
        UniversalStart("force-detect-device", "forceDetectDevice",
                       <<"Forcing detection of device ", vendorId, ":", productId, "...">>)

IsUniversalCall(c) == c.endpoint \in {"detect-any-phone", "force-detect-device"}

\* the continuation of startUniversalDetection / forceDetectDevice on an
\* answer with success: true
UniversalSucceeds(i, result) ==
    /\ IsUniversalCall(pendingCalls[i])
    /\ pendingCalls' = RemoveAt(pendingCalls, i)
    /\ UniversalHandleDetectionSuccess(result)
    /\ UNCHANGED <<currentDevice, isDetecting, usbConnected, hisenseSection,
                   localStorage, recentDevicesUI, modals, fallbackTimers, helpCalls,
                   usbFlows, clock, snap, ignoredCall, notifications, windowApp,
                   downloadVars, badgeVars, appVars, noticeVars, catalogVars, agentVars, fallbackDue, monitor>>

\* ... on an answer with success: false, or on fetch / response.json() rejecting
UniversalFails(i, error) ==
    /\ IsUniversalCall(pendingCalls[i])
    /\ pendingCalls' = RemoveAt(pendingCalls, i)
    /\ UniversalHandleDetectionError(error)
    /\ UNCHANGED <<currentDevice, isDetecting, usbConnected, hisenseSection,
                   localStorage, recentDevicesUI, modals, fallbackTimers, usbFlows,
                   clock, snap, ignoredCall, notifications, windowApp, downloadVars,
                   badgeVars, appVars, noticeVars, catalogVars, agentVars, fallbackDue, monitor>>

UniversalResolves ==
    \E i \in 1..Len(pendingCalls) :
        \/ \E result \in UniversalResults : UniversalSucceeds(i, result)
        \/ \E e \in GatewayErrors : UniversalFails(i, e)
        \/ \E e \in TransportErrors : UniversalFails(i, e)

\* showUniversalDetectionHelp from the answer of /api/detection-help on
DetectionHelpResolves ==
    /\ helpCalls > 0
    /\ helpCalls' = helpCalls - 1
    /\ \/ modals' = Append(modals, "help")
       \/ modals' = modals
    /\ UNCHANGED <<currentDevice, isDetecting, appCurrentDevice, currentDetection,
                   detectionStatus, detectedModel, confidenceBadge, usbConnected,
                   hisenseSection, localStorage, recentDevicesUI, fallbackTimers,
                   pendingCalls, usbFlows, clock, snap, ignoredCall, notifications, windowApp,
                   downloadVars, badgeVars, appVars, noticeVars, catalogVars, agentVars, fallbackDue, monitor>>

TryingStatus(method) ==
    Status("detecting", <<"Trying ", UsbMethods[method], " detection...">>)

\* fixUSBRecognition, up to the 2000 ms wait of the first method
FixUSBRecognition ==
    /\ Room
    /\ Len(usbFlows) < MaxUsbFlows
    /\ detectionStatus' = TryingStatus(1)
    /\ usbFlows' = Append(usbFlows, [method |-> 1, phase |-> "wait"])
    /\ UNCHANGED <<currentDevice, isDetecting, appCurrentDevice, currentDetection,
                   detectedModel, confidenceBadge, usbConnected, hisenseSection,
                   localStorage, recentDevicesUI, modals, fallbackTimers, helpCalls,
                   pendingCalls, clock, snap, ignoredCall, notifications, windowApp, downloadVars,
                   badgeVars, appVars, noticeVars, catalogVars, agentVars, fallbackDue, monitor>>

\* the wait of a method is over: fetch /api/detect-any-phone
FixUSBFetch ==
    \E k \in 1..Len(usbFlows) :
        /\ usbFlows[k].phase = "wait"
        /\ usbFlows' = [usbFlows EXCEPT ![k].phase = "fetch"]
        /\ UNCHANGED <<currentDevice, isDetecting, appCurrentDevice, currentDetection,
                       detectionStatus, detectedModel, confidenceBadge, usbConnected,
                       hisenseSection, localStorage, recentDevicesUI, modals,
                       fallbackTimers, helpCalls, pendingCalls, clock, snap, ignoredCall,
                       notifications, windowApp, downloadVars, badgeVars, appVars, noticeVars, catalogVars, agentVars, fallbackDue, monitor>>

\* the fetch of a method is answered with success: true
FixUSBSucceeds ==
    \E k \in 1..Len(usbFlows), result \in UniversalResults :
        /\ usbFlows[k].phase = "fetch"
        /\ UniversalHandleDetectionSuccess(result)
        /\ usbFlows' = RemoveAt(usbFlows, k)
        /\ UNCHANGED <<currentDevice, isDetecting, usbConnected, hisenseSection,
                       localStorage, recentDevicesUI, modals, fallbackTimers, helpCalls,
                       pendingCalls, clock, snap, ignoredCall, notifications, windowApp, downloadVars,
                       badgeVars, appVars, noticeVars, catalogVars, agentVars, fallbackDue, monitor>>

\* the fetch of a method is answered with success: false: the next method,
\* or after the last one the final status and the help
FixUSBNext ==
    \E k \in 1..Len(usbFlows) :
        /\ usbFlows[k].phase = "fetch"
        /\ IF usbFlows[k].method < Len(UsbMethods)
           THEN /\ detectionStatus' = TryingStatus(usbFlows[k].method + 1)
                /\ usbFlows' = [usbFlows EXCEPT ![k] =
                                   [method |-> usbFlows[k].method + 1, phase |-> "wait"]]
                /\ UNCHANGED helpCalls
           ELSE /\ detectionStatus' =
                       Status("error", <<"USB recognition fix attempts completed">>)
                /\ helpCalls' = helpCalls + 1
                /\ usbFlows' = RemoveAt(usbFlows, k)
        /\ UNCHANGED <<currentDevice, isDetecting, appCurrentDevice, currentDetection,
                       detectedModel, confidenceBadge, usbConnected, hisenseSection,
                       localStorage, recentDevicesUI, modals, fallbackTimers,
                       pendingCalls, clock, snap, ignoredCall, notifications, windowApp, downloadVars,
                       badgeVars, appVars, noticeVars, catalogVars, agentVars, fallbackDue, monitor>>

\* the fetch of a method rejects: the catch runs handleDetectionError
FixUSBThrows ==
    \E k \in 1..Len(usbFlows), e \in TransportErrors :
        /\ usbFlows[k].phase = "fetch"
        /\ UniversalHandleDetectionError(e)
        /\ usbFlows' = RemoveAt(usbFlows, k)
        /\ UNCHANGED <<currentDevice, isDetecting, usbConnected, hisenseSection,
                       localStorage, recentDevicesUI, modals, fallbackTimers,
                       pendingCalls, clock, snap, ignoredCall, notifications, windowApp, downloadVars,
                       badgeVars, appVars, noticeVars, catalogVars, agentVars, fallbackDue, monitor>>

\* the detection fetches that are outstanding
OutstandingDetectionCalls ==
    Len(pendingCalls) + Cardinality({ k \in 1..Len(usbFlows) : usbFlows[k].phase = "fetch" })

\* ------------------------------------------------------------ specification
InitDetect ==
    /\ currentDevice = Null
    /\ isDetecting = FALSE
    /\ appCurrentDevice = Null
    /\ currentDetection = Null
    /\ detectionStatus = Status("idle", << >>)
    /\ detectedModel = << >>
    /\ confidenceBadge = [text |-> NoValue, color |-> "none"]
    /\ usbConnected = FALSE
    /\ hisenseSection = FALSE
    /\ localStorage = Null
    /\ recentDevicesUI = << >>
    /\ modals = << >>
    /\ fallbackTimers = 0
    /\ fallbackDue = << >>
    /\ helpCalls = 0
    /\ pendingCalls = << >>
    /\ usbFlows = << >>
    /\ clock = 0
    /\ snap = Null
    /\ ignoredCall = FALSE

InitDownload ==
    /\ downloadQueue = << >>
    /\ intervals = << >>
    /\ transfers = << >>

InitBadge ==
    /\ badgeInput = Null
    /\ badgeOutput = Null

\* ------------------------------------------------- brand and model catalogs
\* initializeBrandModelData: the catalog of the firmware search
FirmwareCatalog ==
    [b \in {"samsung", "hisense", "xiaomi", "apple", "huawei", "oneplus", "lg"} |->
        CASE b = "samsung" ->
                <<"Galaxy S23", "Galaxy S22", "Galaxy S21", "Galaxy S20", "Galaxy A54",
                  "Galaxy A34", "Galaxy A14", "Galaxy Z Fold 4", "Galaxy Z Flip 4">>
          [] b = "hisense" ->
                <<"Infinity H40 Lite (HLTE230E)", "Infinity H30", "Infinity H50",
                  "U40", "U30", "F30">>
          [] b = "xiaomi" ->
                <<"Redmi Note 12", "Redmi Note 11", "Redmi Note 10", "Mi 13", "Mi 12",
                  "Mi 11", "Poco F5", "Poco X5", "Poco M5">>
          [] b = "apple" ->
                <<"iPhone 15", "iPhone 14", "iPhone 13", "iPhone 12", "iPhone 11",
                  "iPhone SE (2022)", "iPad Pro 12.9", "iPad Air", "iPad Mini">>
          [] b = "huawei" ->
                <<"P50 Pro", "P40 Pro", "P30 Pro", "Mate 40 Pro", "Mate 30 Pro",
                  "Nova 9", "Nova 8">>
          [] b = "oneplus" ->
                <<"OnePlus 11", "OnePlus 10 Pro", "OnePlus 9", "OnePlus Nord 3",
                  "OnePlus Nord CE 3">>
          [] b = "lg" ->
                <<"Velvet", "Wing", "G8", "V60", "Stylo 6", "K series">>]

\* the object literal models of populateModels
ManualCatalog ==
    [b \in {"samsung", "hisense", "xiaomi", "apple", "huawei", "oneplus", "lg"} |->
        CASE b = "samsung" ->
                <<"Galaxy S23", "Galaxy S22", "Galaxy S21", "Galaxy A54", "Galaxy A34">>
          [] b = "hisense" ->
                <<"Infinity H40 Lite (HLTE230E)", "Infinity H30", "Infinity H50">>
          [] b = "xiaomi" -> <<"Redmi Note 12", "Redmi Note 11", "Mi 13", "Poco F5">>
          [] b = "apple" -> <<"iPhone 15", "iPhone 14", "iPhone 13", "iPhone 12">>
          [] b = "huawei" -> <<"P50 Pro", "P40 Pro", "Mate 40 Pro">>
          [] b = "oneplus" -> <<"OnePlus 11", "OnePlus 10 Pro", "OnePlus 9">>
          [] b = "lg" -> <<"Velvet", "Wing", "G8", "V60">>]

\* values a brand select can hand over: the brands of the catalogs, the
\* placeholder and a brand that no catalog lists
BrandInputs == DOMAIN FirmwareCatalog \cup {"", "nokia"}

\* a model select that lists every model whatever the brand is
ModelOptionsAlwaysEnabled(catalog, brand) ==
    [options |-> IF brand \in DOMAIN catalog THEN catalog[brand] ELSE << >>,
     disabled |-> FALSE, value |-> ""]

\* the select after handleBrandChange / populateModels: the placeholder
\* option, which is selected, then one option per model of the brand; options
\* lists the models only
ModelOptions(catalog, brand) ==
    IF brand # "" /\ brand \in DOMAIN catalog
    THEN [options |-> catalog[brand], disabled |-> FALSE, value |-> ""]
    ELSE [options |-> << >>, disabled |-> TRUE, value |-> ""]

\* handleBrandChange(brand)
HandleBrandChange(brand) ==
    /\ modelSelect' = ModelOptions(brandModels, brand)
    /\ UNCHANGED <<brandModels, manualModelSelect, detectVars, notifications,
                   windowApp, downloadVars, badgeVars, appVars, noticeVars, agentVars, fallbackDue, monitor>>

\* populateModels(brand, modelSelect) on the select of the dialog
PopulateModels(brand) ==
    /\ manualModelSelect' = ModelOptions(ManualCatalog, brand)
    /\ UNCHANGED <<brandModels, modelSelect, detectVars, notifications, windowApp,
                   downloadVars, badgeVars, appVars, noticeVars, agentVars, fallbackDue, monitor>>

\* the user picks one of the options of #model-select
PickModel ==
    \E k \in 1..Len(modelSelect.options) :
        /\ ~modelSelect.disabled
        /\ modelSelect' = [modelSelect EXCEPT !.value = modelSelect.options[k]]
        /\ UNCHANGED <<brandModels, manualModelSelect, detectVars, notifications,
                       windowApp, downloadVars, badgeVars, appVars, noticeVars, agentVars, fallbackDue, monitor>>

\* the user picks one of the options of #manual-model
PickManualModel ==
    \E k \in 1..Len(manualModelSelect.options) :
        /\ ~manualModelSelect.disabled
        /\ manualModelSelect' =
              [manualModelSelect EXCEPT !.value = manualModelSelect.options[k]]
        /\ UNCHANGED <<brandModels, modelSelect, detectVars, notifications, windowApp,
                       downloadVars, badgeVars, appVars, noticeVars, agentVars, fallbackDue, monitor>>

\* initializeBrandModelData has run; both model selects show the placeholder
InitCatalog ==
    /\ brandModels = FirmwareCatalog
    /\ modelSelect = [options |-> << >>, disabled |-> TRUE, value |-> ""]
    /\ manualModelSelect = [options |-> << >>, disabled |-> TRUE, value |-> ""]

\* ------------------------------------------------ PhoneUnlockApp: AI agents
AgentNames == {"phone_detection", "unlock_recommender", "risk_assessor",
               "strategy_generator", "self_healing"}

\* the object initializeAI assigns to this.aiAgents
InitialAgents == [n \in AgentNames |-> "active"]

\* agent maps an answer of /api/activate-ai or /api/toggle-agent may carry
AgentMaps ==
    { InitialAgents, [InitialAgents EXCEPT !["phone_detection"] = "inactive"] }

\* updateAIAgentsStatus(agents): the cards it draws, one per entry of agents,
\* and the number it writes into #ai-active-agents
UpdateAIAgentsStatus(agents) ==
    [agents |-> agents,
     activeCount |-> Cardinality({ n \in DOMAIN agents : agents[n] = "active" })]

\* the schedule of the health polls is followed in SpecMonitor only;
\* elsewhere checkSystemHealth is called at any time
Unscheduled == [phase |-> "unscheduled", due |-> NoValue]

\* the constructor of PhoneUnlockApp, with the part of init() that runs
\* initializeAI
InitApp ==
    /\ systemHealth = "healthy"
    /\ healthChecks = 0
    /\ selfHeals = 0
    /\ loading = FALSE
    /\ time = 0
    /\ noticeDue = << >>
    /\ aiAgents = InitialAgents
    /\ agentsUI = UpdateAIAgentsStatus(InitialAgents)
    /\ appCalls = << >>
    /\ monitor = Unscheduled

Init ==
    /\ InitDetect
    /\ InitDownload
    /\ InitBadge
    /\ InitApp
    /\ InitCatalog
    /\ notifications = << >>
    /\ windowApp = TRUE

Next ==
    \/ StartDetection
    \/ DetectPhoneResolves
    \/ FallbackTimerFires
    \/ ShowManualSelection
    \/ CloseModal
    \/ ConfirmManual
    \/ StartUniversalDetection
    \/ AppStartDetection
    \/ ForceDetectDevice
    \/ UniversalResolves
    \/ DetectionHelpResolves
    \/ FixUSBRecognition
    \/ FixUSBFetch
    \/ FixUSBSucceeds
    \/ FixUSBNext
    \/ FixUSBThrows
    \/ NotificationExpires
    \/ NotificationClosed

Spec == Init /\ [][Next]_vars

NextPhone ==
    \/ StartDetection
    \/ DetectPhoneResolves
    \/ FallbackTimerFires
    \/ ShowManualSelection
    \/ CloseModal
    \/ ConfirmManual
    \/ NotificationExpires
    \/ NotificationClosed

SpecPhone == Init /\ [][NextPhone]_vars

\* every fetch of /api/detect-phone is answered or rejects in the end
SpecPhoneLive == Init /\ [][NextPhone]_vars /\ WF_vars(DetectPhoneResolves)

\* PhoneDetection next to startUniversalDetection
NextDetect ==
    \/ NextPhone
    \/ StartUniversalDetection
    \/ UniversalResolves
    \/ DetectionHelpResolves

SpecDetect == Init /\ [][NextDetect]_vars

\* ------------------------------------------------------ recent-devices list
\* the devices handed to addToRecentDevices: three brands, two models each
RecentBrands == {"Samsung", "hisense", "Xiaomi"}
RecentModels == {NameH30, NameH40}

\* addToRecentDevices(phoneInfo) on its own
PushRecentDevice ==
    \E b \in RecentBrands, m \in RecentModels :
        /\ clock < MaxPushes
        /\ localStorage' = JSONstringify(AddToRecentDevices(localStorage,
                               Phone(b, m, extractModelNumber(m), "auto", 910, "absent"),
                               clock + 1))
        /\ recentDevicesUI' = AddToRecentDevices(localStorage,
                               Phone(b, m, extractModelNumber(m), "auto", 910, "absent"),
                               clock + 1)
        /\ clock' = clock + 1
        /\ UNCHANGED <<currentDevice, isDetecting, appCurrentDevice, currentDetection,
                       detectionStatus, detectedModel, confidenceBadge, usbConnected,
                       hisenseSection, modals, fallbackTimers, helpCalls, pendingCalls,
                       usbFlows, snap, ignoredCall, notifications, windowApp,
                       downloadVars, badgeVars, appVars, noticeVars, catalogVars, agentVars, fallbackDue, monitor>>

SpecRecent == Init /\ [][PushRecentDevice]_vars

\* the list in storage
StoredRecentDevices == JSONparse(GetItemOrEmpty(localStorage))

\* --------------------------------------------------------- confidence badge
BadgeSurfaces == {"PhoneDetection", "UniversalPhoneDetection"}
MaxConfidence == 1000
NoBadge == [text |-> NoValue, color |-> "none"]

\* showDetectedDevice of either class draws the badge of a fresh page
ShowDetectedDeviceBadge ==
    /\ badgeOutput = Null
    /\ badgeOutput' =
          IF badgeInput.surface = "PhoneDetection"
          THEN PhoneDetectionBadge(NoBadge,
                   Phone("Samsung", NameS21, NameS21, "auto", badgeInput.confidence, "absent"))
          ELSE UniversalBadge(
                   Phone("Samsung", NameS21, NameS21, "auto", badgeInput.confidence, "adb"))
    /\ UNCHANGED <<detectVars, notifications, windowApp, downloadVars, badgeInput, appVars, noticeVars, catalogVars, agentVars, fallbackDue, monitor>>

InitBadgeInputs ==
    /\ InitDetect
    /\ InitDownload
    /\ InitApp
    /\ InitCatalog
    /\ notifications = << >>
    /\ windowApp = TRUE
    /\ badgeInput \in [surface : BadgeSurfaces, confidence : 0..MaxConfidence]
    /\ badgeOutput = Null

SpecBadge == InitBadgeInputs /\ [][ShowDetectedDeviceBadge]_vars

\* ----------------------------------------------------------- download queue
Downloads == { <<"url1", "v1.0">>, <<"url2", "v2.0">> }
ProgressIncrements == {0, 9}
DownloadErrors == {"Download failed", "Failed to fetch"}

\* downloadQueue.find without the test of the version
FindDownloadAny(queue, version) ==
    IF Len(queue) = 0 THEN 0 ELSE 1

\* downloadQueue.find(item => item.version === version), 0 for undefined
FindDownload(queue, version) ==
    LET hits == { i \in 1..Len(queue) : queue[i].version = version }
    IN IF hits = {} THEN 0 ELSE CHOOSE i \in hits : \A j \in hits : i <= j

\* downloadFirmware(url, version), up to the fetch of the url
DownloadFirmware ==
    \E d \in Downloads :
        /\ Len(downloadQueue) < MaxQueue
        /\ NoticeRoom
        /\ notifications' = ShowNotification(notifications,
                                <<"Starting download: ", d[2]>>, "info")
        /\ downloadQueue' = Append(downloadQueue,
                                [url |-> d[1], version |-> d[2], status |-> "downloading",
                                 progress |-> NoValue, error |-> ""])
        /\ intervals' = Append(intervals, d[2])
        /\ transfers' = Append(transfers, d[2])
        /\ UNCHANGED <<detectVars, windowApp, badgeVars, appVars, noticeVars, catalogVars, agentVars, fallbackDue, monitor>>

\* a tick that never clears its interval
ProgressTickAtKeepsRunning(k, inc) ==
    LET i == FindDownload(downloadQueue, intervals[k])
    IN /\ i # 0
       /\ downloadQueue[i].status = "downloading"
       /\ LET before == IF downloadQueue[i].progress > 0
                         THEN downloadQueue[i].progress ELSE 0
              after == before + inc
          IN downloadQueue' = [downloadQueue EXCEPT ![i].progress =
                                   IF after >= 100 THEN 100 ELSE after]
       /\ UNCHANGED <<intervals, transfers, detectVars, notifications, windowApp,
                      badgeVars, appVars, noticeVars, catalogVars, agentVars,
                      fallbackDue, monitor>>

\* one tick of the 500 ms interval k of simulateDownloadProgress(version)
ProgressTickAt(k, inc) ==
    LET i == FindDownload(downloadQueue, intervals[k])
    IN IF i # 0 /\ downloadQueue[i].status = "downloading"
       THEN LET before == IF downloadQueue[i].progress > 0
                          THEN downloadQueue[i].progress ELSE 0
                after == before + inc
            IN /\ downloadQueue' = [downloadQueue EXCEPT ![i].progress =
                                        IF after >= 100 THEN 100 ELSE after]
               /\ intervals' = IF after >= 100 THEN RemoveAt(intervals, k)
                               ELSE intervals
               /\ UNCHANGED <<transfers, detectVars, notifications, windowApp,
                              badgeVars, appVars, noticeVars, catalogVars, agentVars, fallbackDue, monitor>>
       ELSE /\ intervals' = RemoveAt(intervals, k)
            /\ UNCHANGED <<downloadQueue, transfers, detectVars, notifications,
                           windowApp, badgeVars, appVars, noticeVars, catalogVars, agentVars, fallbackDue, monitor>>

ProgressTick ==
    \E k \in 1..Len(intervals), inc \in ProgressIncrements : ProgressTickAt(k, inc)

\* the completion of a transfer that also takes the item out of the queue
TransferCompletesAndPrunes ==
    \E k \in 1..Len(transfers) :
        LET i == FindDownload(downloadQueue, transfers[k])
        IN /\ NoticeRoom
           /\ downloadQueue' = IF i # 0 THEN RemoveAt(downloadQueue, i) ELSE downloadQueue
           /\ notifications' = ShowNotification(notifications,
                                   <<"Download completed: ", transfers[k]>>, "success")
           /\ transfers' = RemoveAt(transfers, k)
           /\ UNCHANGED <<intervals, detectVars, windowApp, badgeVars, appVars, noticeVars, catalogVars, agentVars, fallbackDue, monitor>>

\* downloadFirmware from the answer of fetch(url) on: the file is saved
TransferCompletes ==
    \E k \in 1..Len(transfers) :
        LET i == FindDownload(downloadQueue, transfers[k])
        IN /\ NoticeRoom
           /\ downloadQueue' = IF i # 0
                               THEN [downloadQueue EXCEPT ![i].status = "completed"]
                               ELSE downloadQueue
           /\ notifications' = ShowNotification(notifications,
                                   <<"Download completed: ", transfers[k]>>, "success")
           /\ transfers' = RemoveAt(transfers, k)
           /\ UNCHANGED <<intervals, detectVars, windowApp, badgeVars, appVars, noticeVars, catalogVars, agentVars, fallbackDue, monitor>>

\* fetch rejects, the response is not ok, or blob() rejects: the catch block
TransferFails ==
    \E k \in 1..Len(transfers), e \in DownloadErrors :
        LET i == FindDownload(downloadQueue, transfers[k])
        IN /\ NoticeRoom
           /\ notifications' = ShowNotification(notifications,
                                   <<"Download failed: ", e>>, "error")
           /\ downloadQueue' = IF i # 0
                               THEN [downloadQueue EXCEPT ![i].status = "failed",
                                                          ![i].error = e]
                               ELSE downloadQueue
           /\ transfers' = RemoveAt(transfers, k)
           /\ UNCHANGED <<intervals, detectVars, windowApp, badgeVars, appVars, noticeVars, catalogVars, agentVars, fallbackDue, monitor>>

NextDownload ==
    \/ DownloadFirmware
    \/ ProgressTick
    \/ TransferCompletes
    \/ TransferFails
    \/ NotificationExpires
    \/ NotificationClosed

SpecDownload == Init /\ [][NextDownload]_vars

\* the download queue on a page that does not publish window.app: the
\* messages of FirmwareManager.showNotification go to alert()
InitQueue ==
    /\ InitDetect
    /\ InitDownload
    /\ InitBadge
    /\ InitApp
    /\ InitCatalog
    /\ notifications = << >>
    /\ windowApp = FALSE

NextQueue ==
    \/ DownloadFirmware
    \/ ProgressTick
    \/ TransferCompletes
    \/ TransferFails

SpecQueue == InitQueue /\ [][NextQueue]_vars

\* a tick whose Math.random() * 10 is more than 0
ProgressAdvances ==
    \E k \in 1..Len(intervals), inc \in ProgressIncrements \ {0} : ProgressTickAt(k, inc)

\* setInterval keeps calling back every 500 ms, and Math.random() does not
\* return 0 for ever
SpecQueueLive == InitQueue /\ [][NextQueue]_vars /\ WF_vars(ProgressAdvances)

\* ------------------------------------------------- PhoneUnlockApp: health
HealthValues == {"healthy", "degraded", "unhealthy"}
HealthTypeErrorMessage == "Cannot read properties of undefined (reading 'overall_health')"

\* startHealthMonitoring that never arms the poll
AfterInitialCheckNeverArms == monitor

\* startHealthMonitoring after its await of the first checkSystemHealth:
\* setInterval arms the poll
AfterInitialCheck ==
    IF monitor.phase = "initial"
    THEN [phase |-> "armed", due |-> time + PollInterval]
    ELSE monitor

\* updateSystemHealth(health) that redraws the banner only
UpdateSystemHealthBannerOnly(health) == systemHealth

\* updateSystemHealth(health): the value it assigns to this.systemHealth
UpdateSystemHealth(health) == health.overall_health

\* the field checkSystemHealth writes when the answer is success: false
HealthAfterRejection == systemHealth

\* the field checkSystemHealth writes in its catch block
HealthAfterTransportFailure == UpdateSystemHealth([overall_health |-> "unhealthy"])

\* checkSystemHealth, from startHealthMonitoring or its 30 s interval, up
\* to the fetch of /api/health-status
CheckSystemHealth ==
    /\ healthChecks < MaxHealthChecks
    /\ healthChecks' = healthChecks + 1
    /\ UNCHANGED <<systemHealth, selfHeals, loading, detectVars, notifications,
                   windowApp, downloadVars, badgeVars, noticeVars, catalogVars, agentVars, fallbackDue, monitor>>

\* the answer is success: true with data.overall_health = h
HealthStatusSucceeds(h) ==
    /\ healthChecks > 0
    /\ healthChecks' = healthChecks - 1
    /\ monitor' = AfterInitialCheck
    /\ systemHealth' = UpdateSystemHealth([overall_health |-> h])
    /\ UNCHANGED <<selfHeals, loading, detectVars, notifications, windowApp,
                   downloadVars, badgeVars, noticeVars, catalogVars, agentVars, fallbackDue>>

\* the answer is success: true without data: updateSystemHealth(undefined)
\* throws inside the try, so the catch block runs
HealthStatusWithoutData ==
    /\ healthChecks > 0
    /\ healthChecks' = healthChecks - 1
    /\ monitor' = AfterInitialCheck
    /\ systemHealth' = HealthAfterTransportFailure
    /\ UNCHANGED <<selfHeals, loading, detectVars, notifications, windowApp,
                   downloadVars, badgeVars, noticeVars, catalogVars, agentVars, fallbackDue>>

\* the answer is success: false: nothing is done with it
HealthStatusRejected ==
    /\ healthChecks > 0
    /\ healthChecks' = healthChecks - 1
    /\ monitor' = AfterInitialCheck
    /\ systemHealth' = HealthAfterRejection
    /\ UNCHANGED <<selfHeals, loading, detectVars, notifications, windowApp,
                   downloadVars, badgeVars, noticeVars, catalogVars, agentVars, fallbackDue>>

\* fetch or response.json() rejects: the catch block
HealthStatusThrows ==
    /\ healthChecks > 0
    /\ healthChecks' = healthChecks - 1
    /\ monitor' = AfterInitialCheck
    /\ systemHealth' = HealthAfterTransportFailure
    /\ UNCHANGED <<selfHeals, loading, detectVars, notifications, windowApp,
                   downloadVars, badgeVars, noticeVars, catalogVars, agentVars, fallbackDue>>

HealthStatusResolves ==
    \/ \E h \in HealthValues : HealthStatusSucceeds(h)
    \/ HealthStatusWithoutData
    \/ HealthStatusRejected
    \/ HealthStatusThrows

\* runSelfHealing, up to the fetch of /api/self-heal
RunSelfHealing ==
    /\ selfHeals < MaxSelfHeals
    /\ selfHeals' = selfHeals + 1
    /\ loading' = TRUE
    /\ UNCHANGED <<systemHealth, healthChecks, detectVars, notifications, windowApp,
                   downloadVars, badgeVars, noticeVars, catalogVars, agentVars, fallbackDue, monitor>>

\* the answer is success: true with health_status.overall_health = h
SelfHealSucceeds(h) ==
    /\ selfHeals > 0
    /\ NoticeRoom
    /\ selfHeals' = selfHeals - 1
    /\ notifications' = AppShowNotification(notifications,
                            <<"Self-healing completed successfully!">>, "success", "")
    /\ systemHealth' = UpdateSystemHealth([overall_health |-> h])
    /\ loading' = FALSE
    /\ UNCHANGED <<healthChecks, detectVars, windowApp, downloadVars, badgeVars, noticeVars, catalogVars, agentVars, fallbackDue, monitor>>

\* the answer is success: false with an error, or fetch / response.json()
\* rejecting: showError with the message of the branch
SelfHealFails(message) ==
    /\ selfHeals > 0
    /\ NoticeRoom
    /\ selfHeals' = selfHeals - 1
    /\ notifications' = AppShowNotification(notifications, message, "error", "")
    /\ loading' = FALSE
    /\ UNCHANGED <<systemHealth, healthChecks, detectVars, windowApp, downloadVars,
                   badgeVars, noticeVars, catalogVars, agentVars, fallbackDue, monitor>>

\* the answer is success: true without health_status: showSuccess has run
\* when updateSystemHealth(undefined) throws, and the catch block adds
\* showError
SelfHealWithoutStatus ==
    /\ selfHeals > 0
    /\ NoticeRoom
    /\ selfHeals' = selfHeals - 1
    /\ notifications' =
          AppShowNotification(
              AppShowNotification(notifications,
                  <<"Self-healing completed successfully!">>, "success", ""),
              <<"Error running self-healing: ", HealthTypeErrorMessage>>, "error", "")
    /\ loading' = FALSE
    /\ UNCHANGED <<systemHealth, healthChecks, detectVars, windowApp, downloadVars,
                   badgeVars, noticeVars, catalogVars, agentVars, fallbackDue, monitor>>

SelfHealResolves ==
    \/ \E h \in HealthValues : SelfHealSucceeds(h)
    \/ SelfHealWithoutStatus
    \/ \E e \in GatewayErrors : SelfHealFails(<<"Self-healing failed: ", e>>)
    \/ \E e \in TransportErrors : SelfHealFails(<<"Error running self-healing: ", e>>)

NextHealth ==
    \/ CheckSystemHealth
    \/ HealthStatusResolves
    \/ RunSelfHealing
    \/ SelfHealResolves
    \/ NotificationExpires
    \/ NotificationClosed

SpecHealth == Init /\ [][NextHealth]_vars

\* ------------------------------------ PhoneUnlockApp: the schedule of polls
\* init() has run startHealthMonitoring up to the fetch of its first
\* checkSystemHealth
InitMonitor ==
    /\ InitDetect
    /\ InitDownload
    /\ InitBadge
    /\ InitCatalog
    /\ notifications = << >>
    /\ windowApp = TRUE
    /\ systemHealth = "healthy"
    /\ healthChecks = 1
    /\ selfHeals = 0
    /\ loading = FALSE
    /\ time = 0
    /\ noticeDue = << >>
    /\ aiAgents = InitialAgents
    /\ agentsUI = UpdateAIAgentsStatus(InitialAgents)
    /\ appCalls = << >>
    /\ monitor = [phase |-> "initial", due |-> NoValue]

\* the 30000 ms interval of startHealthMonitoring fires: checkSystemHealth
\* up to its fetch, whatever polls are still outstanding
HealthIntervalFires ==
    /\ monitor.phase = "armed"
    /\ monitor.due = time
    /\ healthChecks < MaxHealthChecks
    /\ healthChecks' = healthChecks + 1
    /\ monitor' = [monitor EXCEPT !.due = time + PollInterval]
    /\ UNCHANGED <<systemHealth, selfHeals, loading, detectVars, notifications,
                   windowApp, downloadVars, badgeVars, noticeVars, catalogVars,
                   agentVars, fallbackDue>>

\* a second passes; the interval that is due has fired before it does
MonitorTimePasses ==
    /\ time < MaxMonitorTime
    /\ monitor.phase = "armed" => monitor.due > time
    /\ time' = time + 1
    /\ UNCHANGED <<noticeDue, notifications, detectVars, windowApp, downloadVars,
                   badgeVars, appVars, catalogVars, agentVars, fallbackDue, monitor>>

NextMonitor ==
    \/ HealthStatusResolves
    \/ HealthIntervalFires
    \/ MonitorTimePasses

SpecMonitor == InitMonitor /\ [][NextMonitor]_vars

\* ------------------------------------------- PhoneUnlockApp: agent flows
AppCall(op, arg) == [op |-> op, arg |-> arg]
AppRoom == Len(appCalls) < MaxAppCalls

\* flows that called showLoading and have not reached their hideLoading
LoadingOps == {"activateAllAI", "analyzeLockType", "findFirmware", "searchFirmware",
               "selectUnlockMethod"}
LoadingFlows == Cardinality({ k \in 1..Len(appCalls) : appCalls[k].op \in LoadingOps })
                   + selfHeals

AgentsTypeErrorMessage == "Cannot convert undefined or null to object"

\* formatAgentName on the agents that are toggled
FormatAgentName(agentName) ==
    CASE agentName = "phone_detection" -> "Phone Detection AI"
      [] agentName = "self_healing" -> "Self-Healing System"
      [] OTHER -> agentName

ToggledAgents == {"phone_detection"}
ToggledStatus == {"inactive"}

\* activateAllAI, up to the fetch of /api/activate-ai
ActivateAllAI ==
    /\ AppRoom
    /\ loading' = TRUE
    /\ appCalls' = Append(appCalls, AppCall("activateAllAI", ""))
    /\ UNCHANGED <<aiAgents, agentsUI, systemHealth, healthChecks, selfHeals, detectVars,
                   notifications, windowApp, downloadVars, badgeVars, noticeVars, catalogVars, fallbackDue, monitor>>

\* the answer is success: true with the map agents
ActivateAISucceeds(k, agents) ==
    /\ appCalls[k].op = "activateAllAI"
    /\ NoticeRoom
    /\ notifications' = AppShowNotification(notifications,
                            <<"All AI systems activated successfully!">>, "success", "")
    /\ agentsUI' = UpdateAIAgentsStatus(agents)
    /\ loading' = FALSE
    /\ appCalls' = RemoveAt(appCalls, k)
    /\ UNCHANGED <<aiAgents, systemHealth, healthChecks, selfHeals, detectVars, windowApp,
                   downloadVars, badgeVars, noticeVars, catalogVars, fallbackDue, monitor>>

\* the answer is success: true without agents: showSuccess has run when
\* Object.entries(undefined) throws in updateAIAgentsStatus, and the catch
\* block adds showError
ActivateAIWithoutAgents(k) ==
    /\ appCalls[k].op = "activateAllAI"
    /\ NoticeRoom
    /\ notifications' =
          AppShowNotification(
              AppShowNotification(notifications,
                  <<"All AI systems activated successfully!">>, "success", ""),
              <<"Error activating AI: ", AgentsTypeErrorMessage>>, "error", "")
    /\ loading' = FALSE
    /\ appCalls' = RemoveAt(appCalls, k)
    /\ UNCHANGED <<aiAgents, agentsUI, systemHealth, healthChecks, selfHeals, detectVars,
                   windowApp, downloadVars, badgeVars, noticeVars, catalogVars,
                   fallbackDue, monitor>>

\* the answer is success: false, or fetch / response.json() rejects
ActivateAIFails(k, message) ==
    /\ appCalls[k].op = "activateAllAI"
    /\ NoticeRoom
    /\ notifications' = AppShowNotification(notifications, message, "error", "")
    /\ loading' = FALSE
    /\ appCalls' = RemoveAt(appCalls, k)
    /\ UNCHANGED <<aiAgents, agentsUI, systemHealth, healthChecks, selfHeals, detectVars,
                   windowApp, downloadVars, badgeVars, noticeVars, catalogVars,
                   fallbackDue, monitor>>

ActivateAIResolves ==
    \E k \in 1..Len(appCalls) :
        \/ \E agents \in AgentMaps : ActivateAISucceeds(k, agents)
        \/ ActivateAIWithoutAgents(k)
        \/ \E e \in GatewayErrors : ActivateAIFails(k, <<"Failed to activate AI systems: ", e>>)
        \/ \E e \in TransportErrors : ActivateAIFails(k, <<"Error activating AI: ", e>>)

\* toggleAgent(agentName), up to the fetch of /api/toggle-agent/<agentName>
ToggleAgent(agentName) ==
    /\ AppRoom
    /\ appCalls' = Append(appCalls, AppCall("toggleAgent", agentName))
    /\ UNCHANGED <<aiAgents, agentsUI, appVars, detectVars, notifications, windowApp, downloadVars, badgeVars, noticeVars, catalogVars, fallbackDue, monitor>>

\* the answer is success: true with status and all_agents
ToggleAgentSucceeds(k, status, agents) ==
    /\ appCalls[k].op = "toggleAgent"
    /\ NoticeRoom
    /\ notifications' = AppShowNotification(notifications,
                            <<FormatAgentName(appCalls[k].arg), " ", status>>, "success", "")
    /\ agentsUI' = UpdateAIAgentsStatus(agents)
    /\ appCalls' = RemoveAt(appCalls, k)
    /\ UNCHANGED <<aiAgents, appVars, detectVars, windowApp, downloadVars, badgeVars,
                   noticeVars, catalogVars, fallbackDue, monitor>>

\* the answer is success: false, or fetch / response.json() rejects
ToggleAgentFails(k, message) ==
    /\ appCalls[k].op = "toggleAgent"
    /\ NoticeRoom
    /\ notifications' = AppShowNotification(notifications, message, "error", "")
    /\ appCalls' = RemoveAt(appCalls, k)
    /\ UNCHANGED <<aiAgents, agentsUI, appVars, detectVars, windowApp, downloadVars,
                   badgeVars, noticeVars, catalogVars, fallbackDue, monitor>>

ToggleAgentResolves ==
    \E k \in 1..Len(appCalls) :
        \/ \E status \in ToggledStatus, agents \in AgentMaps :
              ToggleAgentSucceeds(k, status, agents)
        \/ \E e \in GatewayErrors :
              ToggleAgentFails(k, <<"Failed to toggle ", appCalls[k].arg, ": ", e>>)
        \/ \E e \in TransportErrors : ToggleAgentFails(k, <<"Error toggling agent: ", e>>)

\* ------------------------------------------ flows that need a device first
LockTypes == {"frp"}
SearchInputs == {"", "SM-G991B"}

\* formatLockType on the lock types in use
FormatLockType(lockType) ==
    CASE lockType = "frp" -> "FRP Bypass"
      [] OTHER -> lockType

\* analyzeLockType / findFirmware without the check of the current device
DeviceFlowUnguarded(op, dialog) ==
    /\ AppRoom
    /\ loading' = TRUE
    /\ appCalls' = Append(appCalls, AppCall(op, ""))
    /\ UNCHANGED <<notifications, aiAgents, agentsUI, systemHealth, healthChecks,
                   selfHeals, detectVars, windowApp, downloadVars, badgeVars, noticeVars,
                   catalogVars, fallbackDue, monitor>>

\* analyzeLockType and findFirmware, up to the fetch of /api/analyze-lock
\* or /api/find-firmware: without a device a warning and nothing else
DeviceFlow(op, dialog) ==
    IF ~Truthy(currentDevice)
    THEN /\ NoticeRoom
         /\ notifications' = ShowNotification(notifications,
                                 <<"Please detect a device first">>, "warning")
         /\ UNCHANGED <<agentVars, appVars, detectVars, windowApp, downloadVars,
                        badgeVars, noticeVars, catalogVars, fallbackDue, monitor>>
    ELSE /\ AppRoom
         /\ loading' = TRUE
         /\ appCalls' = Append(appCalls, AppCall(op, ""))
         /\ UNCHANGED <<notifications, aiAgents, agentsUI, systemHealth, healthChecks,
                        selfHeals, detectVars, windowApp, downloadVars, badgeVars,
                        noticeVars, catalogVars, fallbackDue, monitor>>

\* the answer is success: true: showLockAnalysis / showFirmwareResults
\* appends its dialog; finally hideLoading
DeviceFlowSucceeds(k, op, dialog) ==
    /\ appCalls[k].op = op
    /\ Room
    /\ modals' = Append(modals, dialog)
    /\ loading' = FALSE
    /\ appCalls' = RemoveAt(appCalls, k)
    /\ UNCHANGED <<currentDevice, isDetecting, appCurrentDevice, currentDetection,
                   detectionStatus, detectedModel, confidenceBadge, usbConnected,
                   hisenseSection, localStorage, recentDevicesUI, fallbackTimers,
                   helpCalls, pendingCalls, usbFlows, clock, snap, ignoredCall,
                   notifications, aiAgents, agentsUI, systemHealth, healthChecks,
                   selfHeals, windowApp, downloadVars, badgeVars, noticeVars,
                   catalogVars, fallbackDue, monitor>>

\* the answer is success: false, or fetch / response.json() rejects:
\* showNotification with the message of the branch; finally hideLoading
DeviceFlowFails(k, op, message) ==
    /\ appCalls[k].op = op
    /\ NoticeRoom
    /\ notifications' = ShowNotification(notifications, message, "error")
    /\ loading' = FALSE
    /\ appCalls' = RemoveAt(appCalls, k)
    /\ UNCHANGED <<aiAgents, agentsUI, systemHealth, healthChecks, selfHeals, detectVars,
                   windowApp, downloadVars, badgeVars, noticeVars, catalogVars,
                   fallbackDue, monitor>>

AnalyzeLockType == DeviceFlow("analyzeLockType", "lock-analysis")

AnalyzeLockResolves ==
    \E k \in 1..Len(appCalls) :
        \/ DeviceFlowSucceeds(k, "analyzeLockType", "lock-analysis")
        \/ \E e \in GatewayErrors :
              DeviceFlowFails(k, "analyzeLockType", <<"Lock analysis failed: ", e>>)
        \/ \E e \in TransportErrors :
              DeviceFlowFails(k, "analyzeLockType", <<"Error analyzing lock: ", e>>)

FindFirmware == DeviceFlow("findFirmware", "firmware")

FindFirmwareResolves ==
    \E k \in 1..Len(appCalls) :
        \/ DeviceFlowSucceeds(k, "findFirmware", "firmware")
        \/ \E e \in GatewayErrors :
              DeviceFlowFails(k, "findFirmware", <<"Firmware search failed: ", e>>)
        \/ \E e \in TransportErrors :
              DeviceFlowFails(k, "findFirmware", <<"Error searching firmware: ", e>>)

\* selectUnlockMethod(lockType): without a device showWarning and the scroll
\* to the detection section; else showLoading and the 2000 ms timer
SelectUnlockMethod(lockType) ==
    IF ~Truthy(appCurrentDevice)
    THEN /\ NoticeRoom
         /\ notifications' = AppShowNotification(notifications,
               <<"Please detect a phone first before selecting unlock method.">>,
               "warning", "")
         /\ UNCHANGED <<agentVars, appVars, detectVars, windowApp, downloadVars,
                        badgeVars, noticeVars, catalogVars, fallbackDue, monitor>>
    ELSE /\ AppRoom
         /\ loading' = TRUE
         /\ appCalls' = Append(appCalls, AppCall("selectUnlockMethod", lockType))
         /\ UNCHANGED <<notifications, aiAgents, agentsUI, systemHealth, healthChecks,
                        selfHeals, detectVars, windowApp, downloadVars, badgeVars,
                        noticeVars, catalogVars, fallbackDue, monitor>>

\* the 2000 ms timer of selectUnlockMethod fires: hideLoading, showSuccess
SelectUnlockTimerFires ==
    \E k \in 1..Len(appCalls) :
        /\ appCalls[k].op = "selectUnlockMethod"
        /\ NoticeRoom
        /\ loading' = FALSE
        /\ notifications' = AppShowNotification(notifications,
              <<"Ready to execute ", FormatLockType(appCalls[k].arg), " on ">>
                 \o appCurrentDevice.model, "success", "")
        /\ appCalls' = RemoveAt(appCalls, k)
        /\ UNCHANGED <<aiAgents, agentsUI, systemHealth, healthChecks, selfHeals,
                       detectVars, windowApp, downloadVars, badgeVars, noticeVars,
                       catalogVars, fallbackDue, monitor>>

\* searchFirmware, up to the fetch of /api/find-firmware: the model of the
\* select, else the text of the search input, else a warning
SearchFirmware ==
    \E searchInput \in SearchInputs :
        IF modelSelect.value = "" /\ searchInput = ""
        THEN /\ NoticeRoom
             /\ notifications' = ShowNotification(notifications,
                   <<"Please select a model or enter a model name">>, "warning")
             /\ UNCHANGED <<agentVars, appVars, detectVars, windowApp, downloadVars,
                            badgeVars, noticeVars, catalogVars, fallbackDue, monitor>>
        ELSE /\ AppRoom
             /\ loading' = TRUE
             /\ appCalls' = Append(appCalls, AppCall("searchFirmware", ""))
             /\ UNCHANGED <<notifications, aiAgents, agentsUI, systemHealth,
                            healthChecks, selfHeals, detectVars, windowApp,
                            downloadVars, badgeVars, noticeVars, catalogVars,
                            fallbackDue, monitor>>

\* the answer of the search: displayFirmwareResults fills #firmware-results,
\* or showNotification with the message of the branch; finally hideLoading
SearchFirmwareResolves ==
    \E k \in 1..Len(appCalls) :
        /\ appCalls[k].op = "searchFirmware"
        /\ \/ UNCHANGED notifications
           \/ /\ NoticeRoom
              /\ \E e \in GatewayErrors :
                    notifications' = ShowNotification(notifications,
                                         <<"Firmware search failed: ", e>>, "error")
           \/ /\ NoticeRoom
              /\ \E e \in TransportErrors :
                    notifications' = ShowNotification(notifications,
                                         <<"Error searching firmware: ", e>>, "error")
        /\ loading' = FALSE
        /\ appCalls' = RemoveAt(appCalls, k)
        /\ UNCHANGED <<aiAgents, agentsUI, systemHealth, healthChecks, selfHeals,
                       detectVars, windowApp, downloadVars, badgeVars, noticeVars,
                       catalogVars, fallbackDue, monitor>>

\* the flows of the application next to each other
NextApp ==
    \/ ActivateAllAI
    \/ ActivateAIResolves
    \/ \E agentName \in ToggledAgents : ToggleAgent(agentName)
    \/ ToggleAgentResolves
    \/ RunSelfHealing
    \/ SelfHealResolves
    \/ SearchFirmware
    \/ SearchFirmwareResolves
    \/ NotificationExpires

SpecApp == Init /\ [][NextApp]_vars

\* the flows that need a device, next to the manual selection of one
NextGuards ==
    \/ AnalyzeLockType
    \/ AnalyzeLockResolves
    \/ FindFirmware
    \/ FindFirmwareResolves
    \/ \E lockType \in LockTypes : SelectUnlockMethod(lockType)
    \/ SelectUnlockTimerFires
    \/ ShowManualSelection
    \/ ConfirmManual
    \/ CloseModal
    \/ NotificationExpires

SpecGuards == Init /\ [][NextGuards]_vars

\* ------------------------------------- PhoneUnlockApp: notices and timers
\* texts and kinds handed to showNotification
ShownNotices ==
    { <<<<"Please select both brand and model">>, "error">>,
      <<<<"Self-healing completed successfully!">>, "success">> }

\* showNotification(message, type): the notice is appended to the container
\* and its 5000 ms timer is armed
ShowTimedNotification(message, type) ==
    /\ Len(notifications) < MaxShown
    /\ notifications' = AppShowNotification(notifications, message, type, "")
    /\ noticeDue' = Append(noticeDue, time + NoticeDelay)
    /\ UNCHANGED <<time, detectVars, windowApp, downloadVars, badgeVars, appVars, catalogVars, agentVars, fallbackDue, monitor>>

\* the timer of the notice at position k fires: notification.remove()
NoticeTimerFires(k) ==
    /\ noticeDue[k] = time
    /\ notifications' = RemoveAt(notifications, k)
    /\ noticeDue' = RemoveAt(noticeDue, k)
    /\ UNCHANGED <<time, detectVars, windowApp, downloadVars, badgeVars, appVars, catalogVars, agentVars, fallbackDue, monitor>>

\* the close button of the notice at position k: this.parentElement.remove();
\* its timer later finds no parentElement and does nothing
NoticeCloseClicked(k) ==
    /\ notifications' = RemoveAt(notifications, k)
    /\ noticeDue' = RemoveAt(noticeDue, k)
    /\ UNCHANGED <<time, detectVars, windowApp, downloadVars, badgeVars, appVars, catalogVars, agentVars, fallbackDue, monitor>>

\* a second passes; the timers that are due have fired before it does
TimePasses ==
    /\ time < MaxTime
    /\ \A k \in 1..Len(noticeDue) : noticeDue[k] > time
    /\ \A k \in 1..Len(fallbackDue) : fallbackDue[k] > time
    /\ time' = time + 1
    /\ UNCHANGED <<noticeDue, notifications, detectVars, windowApp, downloadVars,
                   badgeVars, appVars, catalogVars, agentVars, fallbackDue, monitor>>

NextNotices ==
    \/ \E n \in ShownNotices : ShowTimedNotification(n[1], n[2])
    \/ \E k \in 1..Len(notifications) : NoticeTimerFires(k)
    \/ \E k \in 1..Len(notifications) : NoticeCloseClicked(k)
    \/ TimePasses

SpecNotices == Init /\ [][NextNotices]_vars

\* --------------------------------------- a list found in the local storage
\* devices of entries that an earlier session may have left under the key
\* recentDevices
PersistedDevices ==
    << <<"Samsung", NameH30>>, <<"hisense", NameH30>>, <<"Xiaomi", NameH30>>,
       <<"Samsung", NameH40>>, <<"hisense", NameH40>>, <<"Xiaomi", NameH40>>,
       <<"Samsung", NameS21>> >>

\* a stored list of n entries, starting at the device of position first
PersistedList(n, first) ==
    [i \in 1..n |->
        LET d == PersistedDevices[((first + i - 2) % Len(PersistedDevices)) + 1]
        IN RecentEntry(Phone(d[1], d[2], extractModelNumber(d[2]), "auto", 910, "absent"),
                       0)]

\* the page is loaded with a list of up to MaxStored entries under the key
InitStored ==
    /\ currentDevice = Null
    /\ isDetecting = FALSE
    /\ appCurrentDevice = Null
    /\ currentDetection = Null
    /\ detectionStatus = Status("idle", << >>)
    /\ detectedModel = << >>
    /\ confidenceBadge = [text |-> NoValue, color |-> "none"]
    /\ usbConnected = FALSE
    /\ hisenseSection = FALSE
    /\ \E n \in 0..MaxStored, first \in 1..Len(PersistedDevices) :
          localStorage = JSONstringify(PersistedList(n, first))
    /\ recentDevicesUI = JSONparse(GetItemOrEmpty(localStorage))
    /\ modals = << >>
    /\ fallbackTimers = 0
    /\ fallbackDue = << >>
    /\ helpCalls = 0
    /\ pendingCalls = << >>
    /\ usbFlows = << >>
    /\ clock = 0
    /\ snap = Null
    /\ ignoredCall = FALSE
    /\ InitDownload
    /\ InitBadge
    /\ InitApp
    /\ InitCatalog
    /\ notifications = << >>
    /\ windowApp = TRUE

SpecStored == InitStored /\ [][PushRecentDevice]_vars

\* PhoneDetection with the clock: the 2000 ms timer of the fallback fires
\* when it is due
FallbackTimerDue ==
    /\ fallbackDue # << >>
    /\ fallbackDue[1] = time
    /\ FallbackTimerFires

NextFallback ==
    \/ StartDetection
    \/ DetectPhoneResolves
    \/ FallbackTimerDue
    \/ CloseModal
    \/ TimePasses

SpecFallback == Init /\ [][NextFallback]_vars

NextCatalog ==
    \/ \E brand \in BrandInputs : HandleBrandChange(brand)
    \/ \E brand \in BrandInputs : PopulateModels(brand)
    \/ PickModel
    \/ PickManualModel

SpecCatalog == Init /\ [][NextCatalog]_vars

\* =================================================================== claims
Range(s) == { s[i] : i \in 1..Len(s) }

\* C1: starting from an empty list, after any sequence of addToRecentDevices
\* calls the stored list has at most 5 entries, is ordered most recently
\* pushed first, and has no two entries with the same brand and model.
C1_RecentListWellFormed ==
    LET l == StoredRecentDevices
    IN /\ Len(l) <= RecentCap
       /\ \A i, j \in 1..Len(l) :
             i < j => /\ l[i].detected_at > l[j].detected_at
                      /\ <<l[i].brand, l[i].model>> # <<l[j].brand, l[j].model>>

\* a full list whose oldest entries were dropped at the cap and from whose
\* middle an entry was moved to the front
C1_Witness ==
    LET l == StoredRecentDevices
    IN /\ Len(l) = RecentCap
       /\ l[RecentCap].detected_at > 1
       /\ l[1].detected_at - l[RecentCap].detected_at > RecentCap - 1

\* C2: for every item of downloadQueue and every interleaving of
\* downloadFirmware calls, progress ticks and transfer resolutions, the
\* item's progress never decreases while its status is 'downloading', and
\* once its status is 'completed' or 'failed' it never changes again.
C2_DownloadItemsOneWay ==
    [][\A i \in 1..Len(downloadQueue) :
          /\ i <= Len(downloadQueue')
          /\ downloadQueue[i].status = "downloading"
                => downloadQueue'[i].progress >= downloadQueue[i].progress
          /\ downloadQueue[i].status \in {"completed", "failed"}
                => downloadQueue'[i].status = downloadQueue[i].status]_vars

\* C3: a call of PhoneDetection.startDetection while isDetecting is true and
\* the gateway call of the earlier startDetection is unresolved is a no-op:
\* currentDevice is unchanged and no second detect-phone call is issued.
C3_StartDetectionWhileDetectingIsNoOp ==
    [][(isDetecting /\ StartDetection)
          => UNCHANGED <<currentDevice, appCurrentDevice, pendingCalls, isDetecting,
                         detectionStatus, localStorage, recentDevicesUI, catalogVars>>]_vars

\* startDetection was called a second time while the one detect-phone call
\* was outstanding
C3_Witness ==
    /\ isDetecting
    /\ ignoredCall
    /\ Len(pendingCalls) = 1
    /\ pendingCalls[1] = Call("detect-phone", "startDetection")

\* C4: over all detection entry points, in no reachable state are two
\* detection gateway calls (detect-phone, detect-any-phone,
\* force-detect-device) outstanding at the same time.
C4_AtMostOneDetectionCall == OutstandingDetectionCalls <= 1

\* C5: on both surfaces that draw the confidence badge a whole percentage
\* p in 0..100 is shown green iff p >= 80, amber iff 60 <= p <= 79 and red
\* iff p < 60.
C5_BadgeClassifiedAt80And60 ==
    (badgeOutput # Null /\ badgeInput.confidence % 10 = 0)
        => LET p == badgeInput.confidence \div 10
           IN badgeOutput.color = IF p >= 80 THEN "green"
                                  ELSE IF p >= 60 THEN "amber"
                                  ELSE "red"

\* the recent-devices list starts with the device p
RecentListStartsWith(list, p) ==
    /\ Len(list) > 0
    /\ list[1].brand = p.brand
    /\ list[1].model = p.model

\* C6: when the gateway call of a detection attempt returns success with a
\* phone record P, then after the attempt the current device is P, the
\* recent-devices list has P as its first entry and the status is success.
C6_SuccessSetsDeviceAndRecentList ==
    [][\A i \in 1..Len(pendingCalls) :
          /\ \A phone \in GatewayPhones :
                DetectPhoneSucceeds(i, phone)
                   => /\ currentDevice' = phone
                      /\ appCurrentDevice' = phone
                      /\ RecentListStartsWith(JSONparse(GetItemOrEmpty(localStorage')), phone)
                      /\ detectionStatus'.status = "success"
          /\ \A result \in UniversalResults :
                UniversalSucceeds(i, result)
                   => /\ appCurrentDevice' = result.identification
                      /\ RecentListStartsWith(JSONparse(GetItemOrEmpty(localStorage')),
                                              result.identification)
                      /\ detectionStatus'.status = "success"]_vars

\* a detection attempt fails: success false from the gateway, or the
\* transport failing
AttemptFails ==
    \E i \in 1..Len(pendingCalls), e \in GatewayErrors \cup TransportErrors :
        DetectPhoneFails(i, e) \/ UniversalFails(i, e)

\* C7 as stated: when a detection attempt fails, the current device and the
\* recent-devices list after the attempt are what they were before the
\* attempt started.
C7_FailureRestoresStateAtStart ==
    [][\A i \in 1..Len(pendingCalls), e \in GatewayErrors \cup TransportErrors :
          (DetectPhoneFails(i, e) /\ snap # Null)
             => /\ currentDevice' = snap.device
                /\ appCurrentDevice' = snap.app
                /\ localStorage' = snap.stored]_vars

\* C7 amended: the handling of a failed detection attempt changes neither
\* the current device nor the recent-devices list: they are what they were
\* when the answer of the gateway arrived.
C7_FailureLeavesDeviceAndList ==
    [][AttemptFails => UNCHANGED <<currentDevice, appCurrentDevice, currentDetection,
                                   localStorage, recentDevicesUI, catalogVars>>]_vars

\* an attempt has failed in a session that has a device and a stored list
C7_Witness ==
    /\ detectionStatus.status = "error"
    /\ detectionStatus.message[1] = "Detection failed: "
    /\ currentDevice # Null
    /\ appCurrentDevice # Null
    /\ Len(StoredRecentDevices) > 0

\* C8: when the gateway call of a detection attempt returns success false
\* with the error message m, showNotification records exactly one notice of
\* kind 'error' whose text contains m.
C8_FailureRaisesOneErrorNotice ==
    [][\A i \in 1..Len(pendingCalls), m \in GatewayErrors :
          (DetectPhoneFails(i, m) \/ UniversalFails(i, m))
             => /\ Len(notifications') = Len(notifications) + 1
                /\ SubSeq(notifications', 1, Len(notifications)) = notifications
                /\ notifications'[Len(notifications')].type = "error"
                /\ m \in Range(notifications'[Len(notifications')].message)]_vars

\* /\(([^)]+)\)/ matches somewhere in the model name
HasParenthesisedPart(model) ==
    \E i, j \in 1..Len(model) :
        /\ j > i + 1
        /\ model[i] = "("
        /\ model[j] = ")"
        /\ \A k \in (i + 1)..(j - 1) : model[k] # ")"

\* C9: confirmManualSelection with a non-empty brand and a non-empty model
\* makes the current device a device of that brand and model with
\* detection_method 'manual' and confidence 0.5; isDetecting is not modified
\* and no gateway call is issued; without a parenthesised part in the model
\* name, model_number is the model name.
C9_ManualSelectionSetsDevice ==
    [][\A brand \in ManualBrands, model \in ManualModels, lockType \in ManualLockTypes :
          (brand # "" /\ model # EmptyString /\ ConfirmManualSelection(brand, model, lockType))
             => /\ currentDevice'.brand = brand
                /\ currentDevice'.model = model
                /\ currentDevice'.detection_method = "manual"
                /\ currentDevice'.detection_confidence = ManualConfidence
                /\ appCurrentDevice' = currentDevice'
                /\ UNCHANGED <<isDetecting, pendingCalls, usbFlows, helpCalls, catalogVars>>
                /\ ~HasParenthesisedPart(model) => currentDevice'.model_number = model]_vars

\* a device chosen by hand whose model name has no parenthesised part
C9_Witness ==
    /\ currentDevice \notin {Null, Undefined}
    /\ currentDevice.detection_method = "manual"
    /\ currentDevice.brand = "hisense"
    /\ ~HasParenthesisedPart(currentDevice.model)
    /\ currentDevice.model_number = currentDevice.model

\* C10: confirmManualSelection with an empty brand or an empty model is
\* rejected before anything else happens: the current device, the
\* recent-devices list and the detection status are unchanged, no gateway
\* call is issued and exactly one error notice is raised.
C10_EmptySelectionRejected ==
    [][\A brand \in ManualBrands, model \in ManualModels, lockType \in ManualLockTypes :
          ((brand = "" \/ model = EmptyString) /\ ConfirmManualSelection(brand, model, lockType))
             => /\ UNCHANGED <<currentDevice, appCurrentDevice, localStorage,
                               recentDevicesUI, detectionStatus, isDetecting,
                               pendingCalls, usbFlows, helpCalls, modals, catalogVars>>
                /\ Len(notifications') = Len(notifications) + 1
                /\ SubSeq(notifications', 1, Len(notifications)) = notifications
                /\ notifications'[Len(notifications')].type = "error"]_vars

\* the notice of the rejected selection is shown over the open dialog
C10_Witness ==
    /\ Len(modals) > 0
    /\ modals[1] = "manual"
    /\ \E k \in 1..Len(notifications) :
          notifications[k] = Notice(<<"Please select both brand and model">>, "error", "")

\* C11: after downloadFirmware(url1, v1) immediately followed by
\* downloadFirmware(url2, v2) with v1 # v2 both items are 'downloading' at
\* the same time, and a progress tick of one item, the tick that brings it
\* to 100 included, leaves the progress and the status of the other item
\* unchanged.
C11_DownloadsIndependent ==
    [][/\ DownloadFirmware
          => /\ Len(downloadQueue') = Len(downloadQueue) + 1
             /\ downloadQueue'[Len(downloadQueue')].status = "downloading"
             /\ \A j \in 1..Len(downloadQueue) : downloadQueue'[j] = downloadQueue[j]
       /\ \A k \in 1..Len(intervals), inc \in ProgressIncrements :
             ProgressTickAt(k, inc)
                => /\ Len(downloadQueue') = Len(downloadQueue)
                   /\ \A j \in 1..Len(downloadQueue) :
                         downloadQueue[j].version # intervals[k]
                            => downloadQueue'[j] = downloadQueue[j]]_vars

\* two items of different versions, both 'downloading', the first at 100
\* and the second not
C11_Witness ==
    /\ Len(downloadQueue) = 2
    /\ downloadQueue[1].version # downloadQueue[2].version
    /\ downloadQueue[1].status = "downloading"
    /\ downloadQueue[2].status = "downloading"
    /\ downloadQueue[1].progress = 100
    /\ downloadQueue[2].progress < 100

\* the positions of the queue with the version v, and those of a sequence
\* of versions
ItemsOf(v) == { i \in 1..Len(downloadQueue) : downloadQueue[i].version = v }
PositionsOf(seq, v) == { k \in 1..Len(seq) : seq[k] = v }

\* C12: an item whose simulated progress reached 100 has its progress
\* process stopped and stays 'downloading' until its own transfer resolves;
\* the item is 'completed' or 'failed' once its transfer has resolved and
\* never before.  Counted by version: the items whose transfer has resolved
\* are as many as the items that are 'completed' or 'failed', and an item
\* at 100 that is still 'downloading' has no progress process left.
C12_ItemEndsWithItsOwnTransfer ==
    \A v \in { d[2] : d \in Downloads } :
        /\ Cardinality({ i \in ItemsOf(v) :
                           downloadQueue[i].status \in {"completed", "failed"} })
              = Cardinality(ItemsOf(v)) - Cardinality(PositionsOf(transfers, v))
        /\ \A i \in ItemsOf(v) :
              (downloadQueue[i].progress = 100 /\ downloadQueue[i].status = "downloading")
                 => Cardinality(PositionsOf(intervals, v)) < Cardinality(ItemsOf(v))

\* the url and the version of the items, in the order of the queue
QueueIdentities(queue) == [i \in 1..Len(queue) |-> <<queue[i].url, queue[i].version>>]

\* C18: the download queue is append-only: each downloadFirmware call adds
\* exactly one item at the end and no operation removes or reorders an
\* item, so the length of the queue is the number of downloadFirmware calls
\* made so far.
C18_QueueAppendOnly ==
    [][IF DownloadFirmware
       THEN /\ Len(downloadQueue') = Len(downloadQueue) + 1
            /\ SubSeq(downloadQueue', 1, Len(downloadQueue)) = downloadQueue
       ELSE QueueIdentities(downloadQueue') = QueueIdentities(downloadQueue)]_vars

\* a full queue that keeps its completed and its failed item
C18_Witness ==
    /\ Len(downloadQueue) = MaxQueue
    /\ transfers = << >>
    /\ \E i \in 1..Len(downloadQueue) : downloadQueue[i].status = "completed"
    /\ \E i \in 1..Len(downloadQueue) : downloadQueue[i].status = "failed"

\* C13: there is a single current device: whenever no success handler is in
\* the middle of its run, PhoneDetection.currentDevice and
\* PhoneUnlockApp.currentDevice hold the same device, or both none,
\* whichever path set it last.
C13_SingleCurrentDevice == currentDevice = appCurrentDevice

\* C14, for checkSystemHealth: an answer with success: false and a failure
\* of the transport are handled identically, so whenever a health-status
\* call is outstanding both outcomes leave the same system health.
C14_RejectionAndTransportFailureAlike ==
    healthChecks > 0 => HealthAfterRejection = HealthAfterTransportFailure

C15_FixUSBEndsAtSuccessOrExhaustion ==
    [][/\ Len(usbFlows') > Len(usbFlows)
          => usbFlows'[Len(usbFlows')].method = 1
       /\ \A k \in 1..Len(usbFlows) :
             /\ (Len(usbFlows') = Len(usbFlows) /\ usbFlows'[k] # usbFlows[k])
                   => \/ /\ usbFlows'[k].method = usbFlows[k].method
                         /\ usbFlows[k].phase = "wait"
                         /\ usbFlows'[k].phase = "fetch"
                      \/ /\ usbFlows'[k].method = usbFlows[k].method + 1
                         /\ usbFlows[k].phase = "fetch"
                         /\ usbFlows'[k].phase = "wait"
                         /\ detectionStatus' = TryingStatus(usbFlows'[k].method)
             /\ (Len(usbFlows') < Len(usbFlows) /\ usbFlows' = RemoveAt(usbFlows, k))
                   => \/ /\ detectionStatus'.status = "success"
                         /\ appCurrentDevice' \in Identifications
                      \/ /\ usbFlows[k].method = Len(UsbMethods)
                         /\ detectionStatus'.status = "error"
                         /\ UNCHANGED <<currentDevice, appCurrentDevice, catalogVars>>]_vars

\* C16: every notice made by showNotification is removed 5 time units
\* after it was made unless it was closed before; notices coexist in the
\* order they were made, the most recent last; two notifications with the
\* same text make two notices; the removal of one notice, by its timer or
\* by its close button, removes and reorders no other notice.
C16_NoticesTimedAndIndependent ==
    [][/\ \A n \in ShownNotices :
             ShowTimedNotification(n[1], n[2])
                => notifications' = Append(notifications, Notice(n[1], n[2], ""))
       /\ Len(notifications') < Len(notifications)
             => \E k \in 1..Len(notifications) :
                   /\ notifications' = RemoveAt(notifications, k)
                   /\ noticeDue' = RemoveAt(noticeDue, k)
       /\ Len(noticeDue') = Len(notifications')
       /\ \A k \in 1..Len(noticeDue') :
             /\ time' <= noticeDue'[k]
             /\ noticeDue'[k] <= time' + NoticeDelay
             /\ \A j \in 1..Len(noticeDue') : j < k => noticeDue'[j] <= noticeDue'[k]]_vars

\* two notices of the same text coexist, the older one about to be removed
\* by its timer
C16_Witness ==
    /\ Len(notifications) = 2
    /\ notifications[1] = notifications[2]
    /\ noticeDue[1] = time
    /\ noticeDue[2] > time

\* C17: after addToRecentDevices returns the recent-devices list has at most
\* 5 entries whatever list was read from the storage at the start of the
\* call, a stored list longer than 5 included, and the value stored under
\* recentDevices is the list that is displayed.
C17_PushCapsAnyStoredList ==
    [][PushRecentDevice
          => /\ Len(JSONparse(GetItemOrEmpty(localStorage'))) <= RecentCap
             /\ JSONparse(GetItemOrEmpty(localStorage')) = recentDevicesUI']_vars

\* C19: the lookup of the models of a brand is total and pure: for a known
\* brand it gives the model names of the brand in catalog order and enables
\* the model select; for an unknown or empty brand it gives no model and
\* disables the select; the catalog is never changed; every model that
\* populateModels offers is in brandModels for the same brand.
C19_ModelLookup ==
    [][/\ \A brand \in BrandInputs :
             /\ HandleBrandChange(brand)
                   => IF brand \in DOMAIN FirmwareCatalog
                      THEN /\ modelSelect'.options = FirmwareCatalog[brand]
                           /\ ~modelSelect'.disabled
                      ELSE /\ modelSelect'.options = << >>
                           /\ modelSelect'.disabled
             /\ PopulateModels(brand)
                   => IF brand \in DOMAIN ManualCatalog
                      THEN /\ manualModelSelect'.options = ManualCatalog[brand]
                           /\ ~manualModelSelect'.disabled
                           /\ Range(manualModelSelect'.options) \subseteq Range(brandModels[brand])
                      ELSE /\ manualModelSelect'.options = << >>
                           /\ manualModelSelect'.disabled
       /\ brandModels' = brandModels
       /\ brandModels = FirmwareCatalog]_vars

\* a model of a known brand was picked in the firmware select while the
\* select of the dialog, asked for an unlisted brand, is disabled
C19_Witness ==
    /\ modelSelect.options = FirmwareCatalog["hisense"]
    /\ modelSelect.value = "Infinity H30"
    /\ manualModelSelect.disabled
    /\ brandModels = FirmwareCatalog

\* C21: after a successful activate-ai or toggle-agent answer that carries
\* the agent map M, PhoneUnlockApp.aiAgents equals M, so the stored map
\* agrees with the agent states and the number of active agents shown.
C21_StoredAgentsFollowAnswer ==
    [][\A k \in 1..Len(appCalls), agents \in AgentMaps :
          (\/ ActivateAISucceeds(k, agents)
           \/ \E status \in ToggledStatus : ToggleAgentSucceeds(k, status, agents))
             => /\ aiAgents' = agents
                /\ agentsUI' = UpdateAIAgentsStatus(aiAgents')]_vars

\* the detect-phone calls of startDetection that are not resolved yet
UnresolvedAttempts ==
    Cardinality({ i \in 1..Len(pendingCalls) : pendingCalls[i].endpoint = "detect-phone" })

\* C22: every accepted startDetection leaves the detecting state when its
\* gateway call resolves, with success, with success: false or with a
\* failure of the transport: isDetecting is false afterwards and the next
\* startDetection is accepted; isDetecting is true exactly while one
\* accepted attempt is unresolved.
C22_DetectingEndsWithItsCall ==
    /\ [](isDetecting <=> UnresolvedAttempts = 1)
    /\ [](UnresolvedAttempts <= 1)
    /\ [][/\ DetectPhoneResolves => (isDetecting /\ ~isDetecting')
          /\ (~isDetecting /\ StartDetection)
                => (isDetecting' /\ Len(pendingCalls') = Len(pendingCalls) + 1)]_vars
    /\ (isDetecting ~> ~isDetecting)

\* an attempt is unresolved that was accepted after an earlier attempt had
\* failed and another had delivered a device
C22_Witness ==
    /\ isDetecting
    /\ UnresolvedAttempts = 1
    /\ currentDevice \in GatewayPhones
    /\ fallbackTimers + Len(modals) > 0

\* a detect-phone call resolves in a way that ends the attempt in failure
PhoneAttemptFails ==
    \E i \in 1..Len(pendingCalls) :
        \/ \E e \in GatewayErrors \cup TransportErrors : DetectPhoneFails(i, e)
        \/ DetectPhoneMalformed(i)

\* C23: every failed PhoneDetection attempt arms the fallback exactly once:
\* the manual-selection dialog is appended 2 time units after the failure,
\* whatever happens in between; a detection that starts or succeeds in the
\* meantime cancels no fallback.
C23_FallbackShownOncePerFailure ==
    [][/\ PhoneAttemptFails
          => fallbackDue' = Append(fallbackDue, time + FallbackDelay)
       /\ ~PhoneAttemptFails
          => \/ fallbackDue' = fallbackDue
             \/ /\ fallbackDue[1] = time
                /\ fallbackDue' = Tail(fallbackDue)
                /\ modals' = Append(modals, "manual")
       /\ Len(fallbackDue') = fallbackTimers'
       /\ \A k \in 1..Len(fallbackDue') :
             /\ time' <= fallbackDue'[k]
             /\ fallbackDue'[k] <= time' + FallbackDelay]_vars

\* the fallback of a failed attempt is due now, after a newer attempt has
\* delivered a device
C23_Witness ==
    /\ fallbackDue # << >>
    /\ fallbackDue[1] = time
    /\ time >= FallbackDelay
    /\ detectionStatus.status = "success"
    /\ currentDevice \in GatewayPhones
    /\ ~isDetecting

\* the step raises exactly one warning notice and changes nothing else
OnlyOneWarning ==
    /\ Len(notifications') = Len(notifications) + 1
    /\ SubSeq(notifications', 1, Len(notifications)) = notifications
    /\ notifications'[Len(notifications')].type = "warning"
    /\ UNCHANGED <<appCalls, loading, currentDevice, appCurrentDevice, currentDetection,
                   pendingCalls, usbFlows, helpCalls, fallbackTimers, fallbackDue,
                   modals, localStorage, recentDevicesUI, detectionStatus, isDetecting,
                   systemHealth, healthChecks, selfHeals, aiAgents, agentsUI,
                   downloadVars, catalogVars, monitor>>

\* C24: the operations that need a device are guarded: while the current
\* device is none, analyzeLockType and findFirmware issue no gateway call
\* and selectUnlockMethod arms no timer; each raises exactly one warning
\* notice and leaves the loading overlay and the session state unchanged.
C24_DeviceOperationsGuarded ==
    [][/\ (~Truthy(currentDevice) /\ (AnalyzeLockType \/ FindFirmware))
          => OnlyOneWarning
       /\ \A lockType \in LockTypes :
             (~Truthy(appCurrentDevice) /\ SelectUnlockMethod(lockType))
                => OnlyOneWarning]_vars

\* the warning of a guarded operation is shown on a page without a device,
\* with no flow started
C24_Witness ==
    /\ ~Truthy(currentDevice)
    /\ ~Truthy(appCurrentDevice)
    /\ appCalls = << >>
    /\ ~loading
    /\ \E k \in 1..Len(notifications) :
          notifications[k] = Notice(<<"Please detect a device first">>, "warning", "")

\* C25: for any two downloadFirmware calls, two calls with the same version
\* included, the resolution of the transfer of a call and the ticks of its
\* progress process change the item of that call only, and every item
\* becomes 'completed' or 'failed' when its own transfer resolves.  So the
\* items that are 'downloading' are as many as the transfers that are
\* outstanding, and none is left when every transfer has resolved.
C25_EachCallEndsItsOwnItem ==
    /\ Cardinality({ i \in 1..Len(downloadQueue) :
                       downloadQueue[i].status = "downloading" }) = Len(transfers)
    /\ transfers = << >>
          => \A i \in 1..Len(downloadQueue) :
                downloadQueue[i].status \in {"completed", "failed"}

\* C26: the loading overlay is visible in every state in which at least
\* one flow that called showLoading has not reached its hideLoading, under
\* every interleaving of overlapping flows, and it is hidden once all of
\* them have finished, with success or with failure.
C26_OverlayShownWhileAFlowRuns == loading <=> LoadingFlows > 0

SameDevice(a, b) == a = b \/ (~Truthy(a) /\ ~Truthy(b))

\* C28: whenever a startDetection attempt ends with the detection status
\* 'error', the current device is what it was before, also when the gateway
\* answers with a success envelope whose phone record is missing and the
\* success handler fails part-way.
C28_ErrorEndKeepsDevice ==
    [][\A i \in 1..Len(pendingCalls) :
          (\/ DetectPhoneMalformed(i)
           \/ \E e \in GatewayErrors \cup TransportErrors : DetectPhoneFails(i, e))
             => /\ detectionStatus'.status = "error"
                /\ SameDevice(currentDevice', currentDevice)
                /\ SameDevice(appCurrentDevice', appCurrentDevice)]_vars

\* C29: when device-producing flows overlap, each successful resolution
\* replaces the current device wholesale, so the current device is the one
\* delivered by the flow that resolved last, whichever flow was started
\* last; once the current device is a device it never returns to none.
C29_LastResolvedFlowSetsDevice ==
    [][/\ \A i \in 1..Len(pendingCalls) :
             /\ \A phone \in GatewayPhones :
                   DetectPhoneSucceeds(i, phone)
                      => (currentDevice' = phone /\ appCurrentDevice' = phone)
             /\ \A result \in UniversalResults :
                   UniversalSucceeds(i, result)
                      => /\ currentDevice' = result.identification
                         /\ appCurrentDevice' = result.identification
       /\ Truthy(currentDevice) => Truthy(currentDevice')
       /\ Truthy(appCurrentDevice) => Truthy(appCurrentDevice')]_vars

\* progress as the tick reads it: a missing field counts as 0
ProgressOf(item) == IF item.progress > 0 THEN item.progress ELSE 0

\* C30: every progress process started by simulateDownloadProgress
\* terminates: it stops at the tick where the progress of its item reaches
\* 100, or at the first tick that finds the status of the item other than
\* 'downloading'; progress is capped at exactly 100 and stays within
\* 0..100; a process that has stopped never modifies the queue again.
C30_ProgressProcessesTerminate ==
    /\ [][\A k \in 1..Len(intervals), inc \in ProgressIncrements :
             ProgressTickAt(k, inc)
                => LET i == FindDownload(downloadQueue, intervals[k])
                   IN IF i # 0 /\ downloadQueue[i].status = "downloading"
                      THEN IF ProgressOf(downloadQueue[i]) + inc >= 100
                           THEN /\ downloadQueue'[i].progress = 100
                                /\ intervals' = RemoveAt(intervals, k)
                           ELSE /\ downloadQueue'[i].progress
                                      = ProgressOf(downloadQueue[i]) + inc
                                /\ intervals' = intervals
                      ELSE /\ intervals' = RemoveAt(intervals, k)
                           /\ downloadQueue' = downloadQueue]_vars
    /\ [][/\ Len(intervals') > Len(intervals) => DownloadFirmware
          /\ (\E i \in 1..Len(downloadQueue) :
                 downloadQueue'[i].progress # downloadQueue[i].progress)
                => \E k \in 1..Len(intervals), inc \in ProgressIncrements :
                      ProgressTickAt(k, inc)]_vars
    /\ [](\A i \in 1..Len(downloadQueue) :
             downloadQueue[i].progress \in {NoValue} \cup 0..100)
    /\ (intervals # << >> ~> intervals = << >>)

\* no progress process is left: one item went to 100 and is completed, the
\* process of the other stopped when it found its item failed
C30_Witness ==
    /\ intervals = << >>
    /\ Len(downloadQueue) = 2
    /\ downloadQueue[1].progress = 100
    /\ downloadQueue[1].status = "completed"
    /\ downloadQueue[2].status = "failed"
    /\ downloadQueue[2].progress \in 1..99

====
